---------------------------- MODULE Spec2Model ----------------------------
(***************************************************************************)
(* A model of agent-optic's session ingestion engine: the directory-index  *)
(* cache of the rollout / Pi session readers, the index (history) readers, *)
(* the per-provider peek / detail / transcript passes, and the daily and   *)
(* elapsed-time aggregations built on them.                                *)
(***************************************************************************)
EXTENDS Integers, Sequences, FiniteSets, TLC

VARIABLES
    \* ---- directory-index cache (codex-rollout-reader.ts, pi-session-reader.ts)
    fsFiles,            \* [Dirs -> SUBSET FileNames]: session files on disk
    rolloutIndexCache,  \* [Dirs -> build id, 0 = no entry]: the module-level Map
    builds,             \* sequence of index builds: the promises and their Map
    pc,                 \* [Callers -> position inside findRolloutFile]
    arg,                \* [Callers -> [dir, id]] arguments of the running call (NoArg when idle)
    ref,                \* [Callers -> build id] the promise the caller awaits / got
    ret,                \* [Callers -> result of the last finished call]
    calls,              \* number of findRolloutFile calls started
    fsOps,              \* number of file-system changes made
    \* ---- the tiered reader (history-reader.ts, session-reader.ts, session-detail.ts)
    world,              \* the files on disk and the caller's arguments (fixed)
    listRes,            \* result of List, st = "none" before the call
    peekRes,            \* result of Peek
    detailRes,          \* result of Detail
    gen,                \* the Transcript generator: state, position, currentModel, yielded entries
    metaRun,            \* a listWithMeta call: state, sessions listed, peeks settled, result
    \* ---- the aggregations (aggregations/daily.ts, aggregations/time.ts)
    aggWorld,           \* the day's data, the calendar or the sessions passed in (fixed)
    daily,              \* result of buildDailySummary, st = "none" before the call
    rangeRun,           \* the loop of buildDailyRange: state, d, dates built, summaries kept
    hours,              \* result of estimateHours
    \* ---- the Codex header cache (codex-rollout-reader.ts)
    headerDisk,         \* the rollout file of each session id, as it is on disk now
    headerCache,        \* headerCache: per key none, a pending read, or its settled header
    headerCall,         \* each caller of readCodexSessionHeader: position, key, header received
    headerCalls,        \* number of calls made
    \* ---- the post-commit hook (examples/commit-tracker.ts)
    hook,               \* the hook file: exists, text (its lines), exec (mode +x)
    hookOrig,           \* the hook file before the first command
    hookOps             \* the commands run so far, in order

cacheVars == <<fsFiles, rolloutIndexCache, builds, pc, arg, ref, ret, calls,
               fsOps>>

readVars == <<world, listRes, peekRes, detailRes, gen, metaRun>>

aggVars == <<aggWorld, daily, rangeRun, hours>>

headerVars == <<headerDisk, headerCache, headerCall, headerCalls>>

hookVars == <<hook, hookOrig, hookOps>>

vars == <<cacheVars, readVars, aggVars, headerVars, hookVars>>

None == "(none)"
\* The absent path (null / undefined)
NoPath == [rollout |-> FALSE, sid |-> None]

-----------------------------------------------------------------------------
(* Bounds of the cache model *)
MaxCalls == 3
MaxFsOps == 2

Dirs == {"d1", "d2"}
Callers == {"c1", "c2"}
\* Session ids; "x-s1" ends in "-s1", so the fallback glob of "s1" matches it.
SessionIds == {"s1", "x-s1"}
\* File names: rollout-<date>T<time>-<sid>.jsonl, or another *.jsonl file
FileNames == {[rollout |-> TRUE, sid |-> "s1"], [rollout |-> TRUE, sid |-> "x-s1"],
              [rollout |-> FALSE, sid |-> "s1"]}

\* parseRolloutFilename: the session id of a rollout file name, None otherwise.
\* The (.+) group takes everything after the time stamp.
parseRolloutFilename(f) == IF f.rollout THEN f.sid ELSE None

\* The fallback glob **/*-${sessionId}.jsonl: any file name ending in
\* "-<sessionId>.jsonl", whatever precedes it.
FallbackGlobMatches(f, sessionId) ==
    \/ f.sid = sessionId
    \/ f.sid = "x-s1" /\ sessionId = "s1"

NoArg == [dir |-> None, id |-> None]

EmptyIndex == [s \in SessionIds |-> NoPath]

\* buildRolloutIndex: the Map from parsed session id to path after scanning
\* the files of the directory; with two files of one id the later set wins,
\* and the scan order is the glob's.
BuildIndexes(files) ==
    { idx \in [SessionIds -> FileNames \cup {NoPath}] :
        \A s \in SessionIds :
            IF \E f \in files : parseRolloutFilename(f) = s
            THEN idx[s] \in {f \in files : parseRolloutFilename(f) = s}
            ELSE idx[s] = NoPath }

\* rolloutIndexCache.set(sessionsDir, promise)  (getRolloutIndex, line 40)
CacheSet_NoMemo(cache, d, b) == cache

CacheSet(cache, d, b) == [cache EXCEPT ![d] = b]

\* index.set(sessionId, fullPath) of the fallback (findRolloutFile, line 60)
IndexSet_Forget(idx, s, f) == idx

IndexSet(idx, s, f) == [idx EXCEPT ![s] = f]

CacheInit ==
    /\ fsFiles = [d \in Dirs |-> {}]
    /\ rolloutIndexCache = [d \in Dirs |-> 0]
    /\ builds = <<>>
    /\ pc = [p \in Callers |-> "idle"]
    /\ arg = [p \in Callers |-> NoArg]
    /\ ref = [p \in Callers |-> 0]
    /\ ret = [p \in Callers |-> [kind |-> "none", path |-> NoPath]]
    /\ calls = 0
    /\ fsOps = 0
    /\ world = None
    /\ listRes = None
    /\ peekRes = None
    /\ detailRes = None
    /\ gen = None
    /\ metaRun = None
    /\ aggWorld = None
    /\ daily = None
    /\ rangeRun = None
    /\ hours = None
    /\ headerDisk = None
    /\ headerCache = None
    /\ headerCall = None
    /\ headerCalls = 0
    /\ hook = None
    /\ hookOrig = None
    /\ hookOps = <<>>

\* A session file appears (a provider writes a new rollout file).
CreateFile(d, f) ==
    /\ fsOps < MaxFsOps
    /\ f \notin fsFiles[d]
    /\ fsFiles' = [fsFiles EXCEPT ![d] = @ \cup {f}]
    /\ fsOps' = fsOps + 1
    /\ UNCHANGED <<rolloutIndexCache, builds, pc, arg, ref, ret, calls>>
    /\ UNCHANGED <<readVars, aggVars, headerVars, hookVars>>

\* A session file disappears.
DeleteFile(d, f) ==
    /\ fsOps < MaxFsOps
    /\ f \in fsFiles[d]
    /\ fsFiles' = [fsFiles EXCEPT ![d] = @ \ {f}]
    /\ fsOps' = fsOps + 1
    /\ UNCHANGED <<rolloutIndexCache, builds, pc, arg, ref, ret, calls>>
    /\ UNCHANGED <<readVars, aggVars, headerVars, hookVars>>

\* findRolloutFile(d, s) up to its first suspension: getRolloutIndex runs
\* synchronously (get, and on a miss build + set), then the caller awaits.
CallFind(p, d, s) ==
    /\ pc[p] = "idle"
    /\ calls < MaxCalls
    /\ calls' = calls + 1
    /\ arg' = [arg EXCEPT ![p] = [dir |-> d, id |-> s]]
    /\ IF rolloutIndexCache[d] = 0
       THEN /\ builds' = Append(builds,
                    [dir |-> d, state |-> "pending", index |-> EmptyIndex])
            /\ rolloutIndexCache' = CacheSet(rolloutIndexCache, d, Len(builds) + 1)
            /\ ref' = [ref EXCEPT ![p] = Len(builds) + 1]
       ELSE /\ ref' = [ref EXCEPT ![p] = rolloutIndexCache[d]]
            /\ UNCHANGED <<builds, rolloutIndexCache>>
    /\ pc' = [pc EXCEPT ![p] = "awaitIndex"]
    /\ UNCHANGED <<fsFiles, ret, fsOps>>
    /\ UNCHANGED <<readVars, aggVars, headerVars, hookVars>>

\* buildRolloutIndex finishes its scan: the promise resolves with the Map.
BuildResolve(b) ==
    /\ b \in DOMAIN builds
    /\ builds[b].state = "pending"
    /\ \E idx \in BuildIndexes(fsFiles[builds[b].dir]) :
         builds' = [builds EXCEPT ![b] = [@ EXCEPT !.state = "resolved", !.index = idx]]
    /\ UNCHANGED <<fsFiles, rolloutIndexCache, pc, arg, ref, ret, calls, fsOps>>
    /\ UNCHANGED <<readVars, aggVars, headerVars, hookVars>>

\* A cache that forgets a failed scan: the rejection removes the entry, so
\* that the next call starts a new scan.
BuildReject_Evict(b) ==
    /\ b \in DOMAIN builds
    /\ builds[b].state = "pending"
    /\ builds' = [builds EXCEPT ![b] = [@ EXCEPT !.state = "rejected"]]
    /\ rolloutIndexCache' = [rolloutIndexCache EXCEPT ![builds[b].dir] = 0]
    /\ UNCHANGED <<fsFiles, pc, arg, ref, ret, calls, fsOps>>
    /\ UNCHANGED <<readVars, aggVars, headerVars, hookVars>>

\* The scan fails (the directory cannot be read): the promise rejects.
BuildReject(b) ==
    /\ b \in DOMAIN builds
    /\ builds[b].state = "pending"
    /\ builds' = [builds EXCEPT ![b] = [@ EXCEPT !.state = "rejected"]]
    /\ UNCHANGED <<fsFiles, rolloutIndexCache, pc, arg, ref, ret, calls, fsOps>>
    /\ UNCHANGED <<readVars, aggVars, headerVars, hookVars>>

\* The await of line 49 resumes: index.get(sessionId), return on a hit,
\* otherwise go on to the fallback search; a rejected promise throws.
Lookup(p) ==
    /\ pc[p] = "awaitIndex"
    /\ builds[ref[p]].state # "pending"
    /\ IF builds[ref[p]].state = "rejected"
       THEN /\ ret' = [ret EXCEPT ![p] = [kind |-> "error", path |-> NoPath]]
            /\ pc' = [pc EXCEPT ![p] = "idle"]
            /\ arg' = [arg EXCEPT ![p] = NoArg]
       ELSE IF builds[ref[p]].index[arg[p].id] # NoPath
       THEN /\ ret' = [ret EXCEPT ![p] =
                        [kind |-> "cached", path |-> builds[ref[p]].index[arg[p].id]]]
            /\ pc' = [pc EXCEPT ![p] = "idle"]
            /\ arg' = [arg EXCEPT ![p] = NoArg]
       ELSE /\ pc' = [pc EXCEPT ![p] = "search"]
            /\ UNCHANGED <<ret, arg>>
    /\ UNCHANGED <<fsFiles, rolloutIndexCache, builds, ref, calls, fsOps>>
    /\ UNCHANGED <<readVars, aggVars, headerVars, hookVars>>

\* The fallback glob scan yields its first match (inserted and returned)
\* or ends without one (null).
Search(p) ==
    /\ pc[p] = "search"
    /\ LET matches == {f \in fsFiles[arg[p].dir] : FallbackGlobMatches(f, arg[p].id)}
       IN  IF matches = {}
           THEN /\ ret' = [ret EXCEPT ![p] = [kind |-> "null", path |-> NoPath]]
                /\ UNCHANGED builds
           ELSE \E f \in matches :
                /\ builds' = [builds EXCEPT ![ref[p]].index =
                                  IndexSet(@, arg[p].id, f)]
                /\ ret' = [ret EXCEPT ![p] = [kind |-> "found", path |-> f]]
    /\ pc' = [pc EXCEPT ![p] = "idle"]
    /\ arg' = [arg EXCEPT ![p] = NoArg]
    /\ UNCHANGED <<fsFiles, rolloutIndexCache, ref, calls, fsOps>>
    /\ UNCHANGED <<readVars, aggVars, headerVars, hookVars>>

CacheNext ==
    \/ \E d \in Dirs, f \in FileNames : CreateFile(d, f)
    \/ \E d \in Dirs, f \in FileNames : DeleteFile(d, f)
    \/ \E p \in Callers, d \in Dirs, s \in SessionIds : CallFind(p, d, s)
    \/ \E b \in 1..MaxCalls : BuildResolve(b)
    \/ \E b \in 1..MaxCalls : BuildReject(b)
    \/ \E p \in Callers : Lookup(p)
    \/ \E p \in Callers : Search(p)

SpecCache == CacheInit /\ [][CacheNext]_vars

-----------------------------------------------------------------------------
(* Session files: lines, content blocks, usage *)

\* A content block of a message. bt: "text" | "thinking" | "tool" | "null"
\* (a JSON null inside the content array); len: length of the text in
\* characters; sens: the text holds a span the redaction patterns match;
\* name: tool name; key, arg: the one argument of the tool call
\* (input[key] = arg; key = "" is an absent or unparseable arguments object).
Block(bt, len, sens, name, key, a) ==
    [bt |-> bt, len |-> len, sens |-> sens, name |-> name, key |-> key, arg |-> a]
TextBlock(len) == Block("text", len, FALSE, "", "", "")
SensitiveTextBlock(len) == Block("text", len, TRUE, "", "", "")
ToolBlock(name, key, a) == Block("tool", 0, FALSE, name, key, a)
NullBlock == Block("null", 0, FALSE, "", "", "")

\* A text: its length, whether it holds a sensitive span, whether it was redacted.
Text(len, sens) == [len |-> len, sens |-> sens, red |-> FALSE]
NoText == Text(0, FALSE)

\* usage objects: has = FALSE is an absent usage. i, o, cw, cr are
\* input / output / cache-write (creation) / cache-read token counts.
\* cost: usage.cost.total (Pi), 0 when absent.
Usage(i, o, cw, cr) ==
    [has |-> TRUE, i |-> i, o |-> o, cw |-> cw, cr |-> cr, cost |-> 0]
NoUsage == [has |-> FALSE, i |-> 0, o |-> 0, cw |-> 0, cr |-> 0, cost |-> 0]

\* One line of a JSON-lines file.
\*   json : "bad" (JSON.parse throws) | "null" (parses to null: every property
\*          access throws TypeError) | "obj"
\*   type, ptype : entry.type and entry.payload.type
\*   hasMsg : entry.message is present (Claude, Pi); role, model, usage,
\*          content are the message's (for Codex: the payload's)
\*   branch, cwd : gitBranch / payload.git.branch, cwd / payload.cwd
\*   side, plan : isSidechain, planContent (Claude)
\*   result : the entry carries a tool result (toolUseResult / output)
\*   ts : the entry's timestamp in ms, NoTs when absent or not a date
NoTs == -1

BaseLine ==
    [json |-> "obj", type |-> "", ptype |-> "", hasMsg |-> FALSE, role |-> "",
     model |-> "", branch |-> "", cwd |-> "", usage |-> NoUsage,
     content |-> <<>>, side |-> FALSE, plan |-> FALSE, result |-> FALSE,
     ts |-> NoTs]
BadLine == [BaseLine EXCEPT !.json = "bad"]
NullLine == [BaseLine EXCEPT !.json = "null"]

\* Does reading a property of the parsed line throw?  (null.type)
Throws(l) == l.json = "null"

ZeroTokens == [i |-> 0, o |-> 0, cc |-> 0, cr |-> 0]

\* SessionMeta fields added by Peek; st: "ok" | "raise" is how the call ended,
\* run: the pass is still iterating (FALSE once an outer catch ended it).
MetaDefault ==
    [st |-> "ok", run |-> TRUE, tok |-> ZeroTokens, messageCount |-> 0,
     model |-> "", gitBranch |-> "", totalCost |-> 0]

\* Fold a per-line step over the lines; a step that clears run (outer catch)
\* or sets st = "raise" (uncaught exception) ends the pass.
FoldLines(Step(_, _), init, lines) ==
    LET r[k \in 0..Len(lines)] ==
            IF k = 0 THEN init
            ELSE LET prev == r[k-1]
                 IN  IF prev.st = "raise" \/ ~prev.run THEN prev
                     ELSE Step(prev, lines[k])
    IN  r[Len(lines)]

\* file.exists(): the check that precedes every file.text()
FileExists_Always(fstate) == TRUE

FileExists(fstate) == fstate # "missing"

\* file.text() fails: an I/O error other than not-found on a file that
\* exists, and not-found on one that does not.
TextFails_Never(fstate) == FALSE

TextFails(fstate) == fstate # "ok"

-----------------------------------------------------------------------------
(* Format B (Codex): peekCodexSession *)

AddCodexUsage(tok, u) ==
    [tok EXCEPT !.i = @ + u.i, !.o = @ + u.o, !.cr = @ + u.cr]

PeekCodexLine(meta, l) ==
    IF l.json = "bad" \/ Throws(l) THEN meta     \* inner try/catch: skip
    ELSE
    LET m1 == IF l.type = "session_meta" /\ meta.gitBranch = ""
                 /\ l.branch # "" /\ l.branch # "HEAD"
              THEN [meta EXCEPT !.gitBranch = l.branch] ELSE meta
        m2 == IF l.type = "turn_context" /\ m1.model = "" /\ l.model # ""
              THEN [m1 EXCEPT !.model = l.model] ELSE m1
        m3 == IF l.type = "event_msg" /\ l.ptype = "token_count" /\ l.usage.has
              THEN [m2 EXCEPT !.tok = AddCodexUsage(@, l.usage)] ELSE m2
        m4 == IF l.type = "response_item" /\ l.ptype = "message"
                 /\ l.role \in {"user", "assistant"}
              THEN [m3 EXCEPT !.messageCount = @ + 1] ELSE m3
    IN  m4

\* find: "path" | "null", what findRolloutFile returned; fstate: the state of
\* the file at that path: "ok" | "missing" | "unreadable" (text() fails with
\* an I/O error other than not-found).
PeekCodexSession(find, fstate, lines) ==
    IF find = "null" THEN MetaDefault
    ELSE IF ~FileExists(fstate) THEN MetaDefault
    ELSE IF TextFails(fstate) THEN MetaDefault     \* catch: file unreadable
    ELSE FoldLines(PeekCodexLine, MetaDefault, lines)

-----------------------------------------------------------------------------
(* Privacy (src/privacy is not part of the sources: modelled from the spec) *)

\* PrivacyConfig: redactPrompts, patterns (redactPatterns is non-empty),
\* homeDir (redactHomeDir), excluded (the projects the exclusion patterns match).
Privacy(rp, pat, home, excl) ==
    [redactPrompts |-> rp, patterns |-> pat, homeDir |-> home, excluded |-> excl]
LocalProfile(excl) == Privacy(FALSE, FALSE, FALSE, excl)
ShareableProfile(excl) == Privacy(FALSE, FALSE, TRUE, excl)
StrictProfile(excl) == Privacy(TRUE, TRUE, TRUE, excl)

isProjectExcluded(project, privacy) == project \in privacy.excluded

\* redactString on a message text: a sensitive span is replaced by the
\* placeholder; applying it again changes nothing.
redactString(txt, privacy) ==
    IF txt.sens /\ (privacy.patterns \/ privacy.homeDir)
    THEN [txt EXCEPT !.sens = FALSE, !.red = TRUE]
    ELSE txt

-----------------------------------------------------------------------------
(* Tools and summaries *)

SummaryMinChars == 20
SummaryMaxChars == 200
SummaryLimit == 10

\* value.split(" ")[0]
SplitHead(a) ==
    CASE a = "git status" -> "git"
      [] a = "git log" -> "git"
      [] a = "ls -l" -> "ls"
      [] OTHER -> a

\* toolDisplayName(name, input) and categorizeToolName(name)
\* (src/parsers/tool-categories is not part of the sources)
toolDisplayName(name, key, a) ==
    IF name \in {"Bash", "exec_command"} /\ key \in {"command", "cmd"} /\ a # ""
    THEN <<name, SplitHead(a)>>
    ELSE <<name, "">>

categorizeToolName(name) ==
    CASE name \in {"Read"} -> "file_read"
      [] name \in {"Edit", "Write"} -> "file_write"
      [] name \in {"Bash", "exec_command"} -> "shell"
      [] name \in {"Grep", "Glob"} -> "search"
      [] OTHER -> "other"

ToolCallSummary(name, disp, target) ==
    [name |-> name, displayName |-> disp, category |-> categorizeToolName(name),
     target |-> target]

\* Map.set(key, value) on an insertion-ordered Map kept as a sequence of
\* values with a displayName key: an existing key keeps its place.
MapSet(m, v) ==
    IF \E k \in 1..Len(m) : m[k].displayName = v.displayName
    THEN [k \in 1..Len(m) |-> IF m[k].displayName = v.displayName THEN v ELSE m[k]]
    ELSE Append(m, v)

\* Set.add(x) on an insertion-ordered Set kept as a sequence
SetAdd(s, x) == IF \E k \in 1..Len(s) : s[k] = x THEN s ELSE Append(s, x)

\* text.slice(0, 200) + (text.length > 200 ? "..." : "")
Summarize(txt) ==
    [len |-> IF txt.len > SummaryMaxChars THEN SummaryMaxChars ELSE txt.len,
     ellipsis |-> txt.len > SummaryMaxChars, red |-> txt.red]

\* array.slice(0, n)
Take(s, n) == IF Len(s) <= n THEN s ELSE SubSeq(s, 1, n)

\* SessionDetail fields added by Detail
DetailDefault ==
    [st |-> "ok", run |-> TRUE, tok |-> ZeroTokens, messageCount |-> 0,
     model |-> "", gitBranch |-> "", summaries |-> <<>>, toolCalls |-> <<>>,
     files |-> <<>>, planReferenced |-> FALSE, thinking |-> 0,
     sidechains |-> FALSE, totalCost |-> 0]

\* The joined text of the text blocks of a content array (joined by "\n").
TextBlocksOf(content) == SelectSeq(content, LAMBDA b : b.bt = "text")

SumLen(blocks) ==
    LET r[k \in 0..Len(blocks)] == IF k = 0 THEN 0 ELSE r[k-1] + blocks[k].len
    IN  r[Len(blocks)]

JoinTexts(blocks) ==
    IF Len(blocks) = 0 THEN NoText
    ELSE Text(SumLen(blocks) + Len(blocks) - 1,
              \E k \in 1..Len(blocks) : blocks[k].sens)

\* parseCodexMessageText: null and non-text elements are filtered out
parseCodexMessageText(content) == JoinTexts(TextBlocksOf(content))

-----------------------------------------------------------------------------
(* Format B (Codex): parseCodexSessionDetail *)

\* extractCodexFilePath(input)
extractCodexFilePath(b) == IF b.key = "file_path" /\ b.arg # "" THEN b.arg ELSE ""

\* extractCodexToolTarget(name, input)
extractCodexToolTarget(b) ==
    IF extractCodexFilePath(b) # "" THEN extractCodexFilePath(b)
    ELSE IF b.key \in {"command", "cmd"} /\ b.arg # "" THEN SplitHead(b.arg)
    ELSE IF b.key \in {"pattern", "query"} /\ b.arg # "" THEN b.arg
    ELSE ""

DetailCodexLine(privacy, d, l) ==
    IF l.json = "bad" THEN d                          \* catch: continue
    ELSE IF Throws(l) THEN [d EXCEPT !.st = "raise"]  \* entry.type of null
    ELSE IF l.type = "session_meta" THEN
        IF d.gitBranch = "" /\ l.branch # "" /\ l.branch # "HEAD"
        THEN [d EXCEPT !.gitBranch = l.branch] ELSE d
    ELSE IF l.type = "turn_context" THEN
        IF d.model = "" /\ l.model # "" THEN [d EXCEPT !.model = l.model] ELSE d
    ELSE IF l.type = "event_msg" THEN
        LET d1 == IF l.ptype = "token_count" /\ l.usage.has
                  THEN [d EXCEPT !.tok = AddCodexUsage(@, l.usage)] ELSE d
        IN  IF l.ptype \in {"user_message", "agent_message"}
            THEN [d1 EXCEPT !.messageCount = @ + 1] ELSE d1
    ELSE IF l.type = "response_item" THEN
        LET d1 == IF l.ptype = "reasoning" THEN [d EXCEPT !.thinking = @ + 1] ELSE d
            summary == parseCodexMessageText(l.content)
            redacted == IF privacy.patterns \/ privacy.homeDir
                        THEN redactString(summary, privacy) ELSE summary
            d2 == IF l.ptype = "message" /\ l.role = "assistant"
                     /\ summary.len > SummaryMinChars
                  THEN [d1 EXCEPT !.summaries = Append(@, Summarize(redacted))]
                  ELSE d1
        IN  IF l.ptype = "function_call" /\ Len(l.content) > 0 /\ l.content[1].name # ""
            THEN LET b == l.content[1]
                     tc == ToolCallSummary(b.name, toolDisplayName(b.name, b.key, b.arg),
                                           extractCodexToolTarget(b))
                 IN  [d2 EXCEPT !.toolCalls = MapSet(@, tc),
                                !.files = IF extractCodexFilePath(b) # ""
                                          THEN SetAdd(@, extractCodexFilePath(b)) ELSE @]
            ELSE d2
    ELSE d

FinishDetail(d) == [d EXCEPT !.summaries = Take(@, SummaryLimit)]

\* file.text() is not inside a try here: an unreadable file raises.
ParseCodexSessionDetail(find, fstate, lines, privacy) ==
    IF find = "null" THEN DetailDefault
    ELSE IF ~FileExists(fstate) THEN DetailDefault
    ELSE IF TextFails(fstate) THEN [DetailDefault EXCEPT !.st = "raise"]
    ELSE LET Step(d, l) == DetailCodexLine(privacy, d, l)
             d == FoldLines(Step, DetailDefault, lines)
         IN  IF d.st = "raise" THEN d ELSE FinishDetail(d)

-----------------------------------------------------------------------------
(* The privacy filter of transcript entries (modelled from the spec) *)

RedactBlock(b, role, privacy) ==
    IF b.bt = "thinking" THEN [b EXCEPT !.len = 0]
    ELSE IF b.bt = "text" /\ role = "user" /\ privacy.redactPrompts
    THEN [b EXCEPT !.len = 0, !.sens = FALSE]
    ELSE IF b.bt = "text" /\ b.sens /\ (privacy.patterns \/ privacy.homeDir)
    THEN [b EXCEPT !.sens = FALSE]
    ELSE b

\* filterTranscriptEntry(entry, privacy): drop = TRUE is the null result
\* (the entry's project is excluded), otherwise e is the redacted entry.
filterTranscriptEntry(e, privacy) ==
    IF e.cwd # "" /\ isProjectExcluded(e.cwd, privacy)
    THEN [drop |-> TRUE, e |-> e]
    ELSE [drop |-> FALSE,
          e |-> [e EXCEPT !.content =
                    [k \in 1..Len(e.content) |-> RedactBlock(e.content[k], e.role, privacy)]]]

\* extractText, extractToolCalls, extractFilePaths, countThinkingBlocks
\* (src/parsers/content-blocks is not part of the sources)
extractText(content) == JoinTexts(TextBlocksOf(content))

ToolBlocksOf(content) == SelectSeq(content, LAMBDA b : b.bt = "tool")

extractFilePath(b) == IF b.key = "file_path" /\ b.arg # "" THEN b.arg ELSE ""

extractToolTarget(b) ==
    IF extractFilePath(b) # "" THEN extractFilePath(b)
    ELSE IF b.key = "command" /\ b.arg # "" THEN SplitHead(b.arg)
    ELSE IF b.key \in {"pattern", "query"} /\ b.arg # "" THEN b.arg
    ELSE ""

countThinkingBlocks(content) == Len(SelectSeq(content, LAMBDA b : b.bt = "thinking"))

\* Fold the tool blocks b[1..n] of a content array into the tool-call Map
\* and the file Set of a detail record.
AddToolBlocks(d, blocks, Target(_)) ==
    LET r[k \in 0..Len(blocks)] ==
            IF k = 0 THEN d
            ELSE LET b == blocks[k]
                     tc == ToolCallSummary(b.name, toolDisplayName(b.name, b.key, b.arg),
                                           Target(b))
                 IN  [r[k-1] EXCEPT !.toolCalls = MapSet(@, tc),
                                    !.files = IF extractFilePath(b) # ""
                                              THEN SetAdd(@, extractFilePath(b)) ELSE @]
    IN  r[Len(blocks)]

-----------------------------------------------------------------------------
(* Format A (Claude): peekClaudeSession, parseClaudeSessionDetail *)

AddClaudeUsage(tok, u) ==
    [tok EXCEPT !.i = @ + u.i, !.o = @ + u.o, !.cc = @ + u.cw, !.cr = @ + u.cr]

PeekClaudeLine(meta, l) ==
    IF l.json = "bad" \/ Throws(l) THEN meta     \* try/catch around the line
    ELSE
    LET m1 == IF meta.gitBranch = "" /\ l.branch # "" /\ l.branch # "HEAD"
              THEN [meta EXCEPT !.gitBranch = l.branch] ELSE meta
        m2 == IF m1.model = "" /\ l.hasMsg /\ l.model # ""
              THEN [m1 EXCEPT !.model = l.model] ELSE m1
        m3 == IF l.hasMsg /\ l.usage.has
              THEN [m2 EXCEPT !.tok = AddClaudeUsage(@, l.usage)] ELSE m2
        m4 == IF l.hasMsg /\ l.role \in {"user", "assistant"}
              THEN [m3 EXCEPT !.messageCount = @ + 1] ELSE m3
    IN  m4

\* The path is computed from the project and the id: no lookup can fail.
PeekClaudeSession(fstate, lines) ==
    IF ~FileExists(fstate) THEN MetaDefault
    ELSE IF TextFails(fstate) THEN MetaDefault     \* catch: file unreadable
    ELSE FoldLines(PeekClaudeLine, MetaDefault, lines)

DetailClaudeLine(privacy, d, l) ==
    IF l.json = "bad" THEN d
    ELSE IF Throws(l) THEN [d EXCEPT !.st = "raise"]   \* the filter reads null
    ELSE
    LET f == filterTranscriptEntry(l, privacy)
        e == f.e
    IN  IF f.drop THEN d
        ELSE
        LET d1 == IF e.side THEN [d EXCEPT !.sidechains = TRUE] ELSE d
            d2 == IF d1.gitBranch = "" /\ e.branch # "" /\ e.branch # "HEAD"
                  THEN [d1 EXCEPT !.gitBranch = e.branch] ELSE d1
            d3 == IF e.plan THEN [d2 EXCEPT !.planReferenced = TRUE] ELSE d2
        IN  IF ~e.hasMsg THEN d3
            ELSE
            LET d4 == IF e.model # "" /\ d3.model = ""
                      THEN [d3 EXCEPT !.model = e.model] ELSE d3
                d5 == IF e.usage.has
                      THEN [d4 EXCEPT !.tok = AddClaudeUsage(@, e.usage)] ELSE d4
                d6 == IF e.role \in {"user", "assistant"}
                      THEN [d5 EXCEPT !.messageCount = @ + 1] ELSE d5
                txt == extractText(e.content)
                d7 == IF txt.len > SummaryMinChars
                      THEN [d6 EXCEPT !.summaries = Append(@, Summarize(txt))] ELSE d6
                d8 == AddToolBlocks(d7, ToolBlocksOf(e.content), extractToolTarget)
            IN  IF e.role = "assistant"
                THEN [d8 EXCEPT !.thinking = @ + countThinkingBlocks(e.content)]
                ELSE d6

ParseClaudeSessionDetail(fstate, lines, privacy) ==
    IF ~FileExists(fstate) THEN DetailDefault
    ELSE IF TextFails(fstate) THEN [DetailDefault EXCEPT !.st = "raise"]
    ELSE LET Step(d, l) == DetailClaudeLine(privacy, d, l)
             d == FoldLines(Step, DetailDefault, lines)
         IN  IF d.st = "raise" THEN d ELSE FinishDetail(d)

-----------------------------------------------------------------------------
(* Format C (Pi): peekPiSession, parsePiSessionDetail *)

\* The part of the line both passes share: model_change, message count,
\* usage and cost.
PiCommonLine(m, l) ==
    LET AddPiUsage(tok, u) ==
            [tok EXCEPT !.i = @ + u.i, !.o = @ + u.o, !.cr = @ + u.cr, !.cc = @ + u.cw]
    IN
    LET m1 == IF l.type = "model_change" /\ m.model = "" /\ l.model # ""
              THEN [m EXCEPT !.model = l.model] ELSE m
    IN  IF l.type = "message" /\ l.hasMsg
        THEN LET m2 == IF l.role \in {"user", "assistant"}
                       THEN [m1 EXCEPT !.messageCount = @ + 1] ELSE m1
                 m3 == IF l.usage.has
                       THEN [m2 EXCEPT !.tok = AddPiUsage(@, l.usage)] ELSE m2
             IN  [m3 EXCEPT !.totalCost = @ + l.usage.cost]
        ELSE m1

\* A TypeError on a null line is caught by the try around the whole loop:
\* the pass ends there and the totals so far are returned.
PeekPiLine(meta, l) ==
    IF l.json = "bad" THEN meta
    ELSE IF Throws(l) THEN [meta EXCEPT !.run = FALSE]
    ELSE PiCommonLine(meta, l)

PeekPiSession(find, fstate, lines) ==
    IF find = "null" THEN MetaDefault
    ELSE IF ~FileExists(fstate) THEN MetaDefault
    ELSE IF TextFails(fstate) THEN MetaDefault     \* catch: file unreadable
    ELSE [FoldLines(PeekPiLine, MetaDefault, lines) EXCEPT !.run = TRUE]

HasNullBlock(content) == \E k \in 1..Len(content) : content[k].bt = "null"

extractPiToolTarget(b) == extractToolTarget(b)

DetailPiLine(privacy, d, l) ==
    LET \* The blocks before the first null block (block.type of null throws)
        BeforeNull(content) ==
            LET nulls == {k \in 1..Len(content) : content[k].bt = "null"}
            IN  IF nulls = {} THEN content
                ELSE SubSeq(content, 1, (CHOOSE k \in nulls : \A j \in nulls : k <= j) - 1)
    IN
    IF l.json = "bad" THEN d
    ELSE IF Throws(l) THEN [d EXCEPT !.run = FALSE]
    ELSE
    LET d1 == PiCommonLine(d, l)
    IN  IF ~(l.type = "message" /\ l.hasMsg /\ l.role = "assistant") THEN d1
        ELSE
        LET blocks == BeforeNull(l.content)
            d2 == AddToolBlocks(d1, ToolBlocksOf(blocks), extractPiToolTarget)
            txt == extractText(blocks)
            redacted == IF privacy.patterns \/ privacy.homeDir
                        THEN redactString(txt, privacy) ELSE txt
            d3 == IF txt.len > SummaryMinChars
                  THEN [d2 EXCEPT !.summaries = Append(@, Summarize(redacted))] ELSE d2
        IN  IF HasNullBlock(l.content) THEN [d2 EXCEPT !.run = FALSE]
            ELSE [d3 EXCEPT !.thinking = @ + countThinkingBlocks(blocks)]

\* The outer try covers file.text() and the loop; the result is finished
\* after the catch whatever happened.
ParsePiSessionDetail(find, fstate, lines, privacy) ==
    IF find = "null" THEN DetailDefault
    ELSE IF ~FileExists(fstate) THEN DetailDefault
    ELSE IF TextFails(fstate) THEN DetailDefault
    ELSE LET Step(d, l) == DetailPiLine(privacy, d, l)
         IN  FinishDetail([FoldLines(Step, DetailDefault, lines) EXCEPT !.run = TRUE])

-----------------------------------------------------------------------------
(* Transcript streaming: streamClaudeTranscript, streamCodexTranscript,     *)
(* streamPiTranscript.  One step of the generator's loop body on a line:    *)
(* act = "skip" (continue), "raise" (uncaught exception), "yield".          *)

GenSkip(cur) == [act |-> "skip", cur |-> cur, e |-> BaseLine]
GenRaise(cur) == [act |-> "raise", cur |-> cur, e |-> BaseLine]

\* const filtered = filterTranscriptEntry(mapped, privacy); if (filtered) yield
FilterAndYield(mapped, cur, privacy) ==
    LET f == filterTranscriptEntry(mapped, privacy)
    IN  IF f.drop THEN GenSkip(cur) ELSE [act |-> "yield", cur |-> cur, e |-> f.e]

\* { timestamp, message: { role, model, content } }
MappedMessage(role, model, content) ==
    [BaseLine EXCEPT !.hasMsg = TRUE, !.role = role, !.model = model,
                     !.content = content]

\* { timestamp, toolUseResult }
MappedToolResult == [BaseLine EXCEPT !.result = TRUE]

\* The whole body is inside try/catch: a null line is skipped.
StreamClaudeLine(l, cur, privacy) ==
    IF l.json = "bad" \/ Throws(l) THEN GenSkip(cur)
    ELSE FilterAndYield(l, cur, privacy)

\* Only JSON.parse is inside try/catch.
StreamCodexLine(l, cur, privacy) ==
    IF l.json = "bad" THEN GenSkip(cur)
    ELSE IF Throws(l) THEN GenRaise(cur)
    ELSE IF l.type = "turn_context" /\ l.model # "" THEN GenSkip(l.model)
    ELSE IF l.type = "response_item" /\ l.ptype = "message" THEN
        IF l.role \in {"user", "assistant"}
        THEN LET txt == parseCodexMessageText(l.content)
                 content == IF txt.len = 0 /\ TextBlocksOf(l.content) = <<>> THEN <<>>
                            ELSE <<Block("text", txt.len, txt.sens, "", "", "")>>
             IN  FilterAndYield(MappedMessage(l.role, cur, content), cur, privacy)
        ELSE GenSkip(cur)
    ELSE IF l.type = "response_item" /\ l.ptype = "function_call"
            /\ Len(l.content) > 0 /\ l.content[1].name # ""
    THEN FilterAndYield(MappedMessage("assistant", cur, <<l.content[1]>>), cur, privacy)
    ELSE IF l.type = "response_item" /\ l.ptype = "function_call_output"
    THEN FilterAndYield(MappedToolResult, cur, privacy)
    ELSE GenSkip(cur)

\* A stream that prefers the message's own model field: msg.model ?? currentModel
PiMessageModel_Own(cur, l) == IF l.model # "" THEN l.model ELSE cur

\* currentModel ?? msg.model
PiMessageModel(cur, l) == IF cur # "" THEN cur ELSE l.model

StreamPiLine(l, cur, privacy) ==
    IF l.json = "bad" THEN GenSkip(cur)
    ELSE IF Throws(l) THEN GenRaise(cur)
    ELSE IF l.type = "model_change" /\ l.model # "" THEN GenSkip(l.model)
    ELSE IF l.type # "message" \/ ~l.hasMsg THEN GenSkip(cur)
    ELSE IF l.role = "user" THEN
        IF HasNullBlock(l.content) THEN GenRaise(cur)
        ELSE LET txt == JoinTexts(TextBlocksOf(l.content))
                 content == IF TextBlocksOf(l.content) = <<>> THEN <<>>
                            ELSE <<Block("text", txt.len, txt.sens, "", "", "")>>
             IN  FilterAndYield(MappedMessage("user", "", content), cur, privacy)
    ELSE IF l.role = "assistant" THEN
        IF HasNullBlock(l.content) THEN GenRaise(cur)
        ELSE FilterAndYield(
                [MappedMessage("assistant", PiMessageModel(cur, l), l.content)
                    EXCEPT !.usage = l.usage], cur, privacy)
    ELSE IF l.role = "toolResult" THEN
        IF HasNullBlock(l.content) THEN GenRaise(cur)
        ELSE FilterAndYield(MappedToolResult, cur, privacy)
    ELSE GenSkip(cur)

\* canonicalProvider (src/utils/providers.ts of the repository is not part
\* of the sources): "openai" is Codex, every other name stands for itself.
canonicalProvider(provider) == IF provider = "openai" THEN "codex" ELSE provider

StreamLine(fmt, l, cur, privacy) ==
    CASE fmt = "codex" -> StreamCodexLine(l, cur, privacy)
      [] fmt = "pi" -> StreamPiLine(l, cur, privacy)
      [] OTHER -> StreamClaudeLine(l, cur, privacy)

\* A reader that decodes and filters every remaining line before it hands
\* out the first entry it found.
Advance_Eager(fmt, lines, pos, cur, privacy) ==
    LET RECURSIVE Go(_, _)
        Go(k, c) ==
            IF k >= Len(lines) THEN [act |-> "end", cur |-> c, e |-> BaseLine, pos |-> k]
            ELSE LET s == StreamLine(fmt, lines[k + 1], c, privacy)
                 IN  IF s.act = "skip" THEN Go(k + 1, s.cur)
                     ELSE [act |-> s.act, cur |-> s.cur, e |-> s.e, pos |-> k + 1]
    IN  [Go(pos, cur) EXCEPT !.pos = Len(lines)]

\* Resume the generator at line pos + 1 and run it to its next yield, to the
\* end of the file ("end") or to an exception ("raise").  pos is the number
\* of lines consumed (decoded).
Advance(fmt, lines, pos, cur, privacy) ==
    LET RECURSIVE Go(_, _)
        Go(k, c) ==
            IF k >= Len(lines) THEN [act |-> "end", cur |-> c, e |-> BaseLine, pos |-> k]
            ELSE LET s == StreamLine(fmt, lines[k + 1], c, privacy)
                 IN  IF s.act = "skip" THEN Go(k + 1, s.cur)
                     ELSE [act |-> s.act, cur |-> s.cur, e |-> s.e, pos |-> k + 1]
    IN  Go(pos, cur)

-----------------------------------------------------------------------------
(* List: readClaudeHistory, readCodexHistory, readPiHistory *)

\* Milliseconds per calendar day; dates are day numbers, and comparing
\* YYYY-MM-DD strings is comparing day numbers.
DayMs == 86400000
\* toLocalDate(timestampMs)  (src/utils/dates is not part of the sources)
toLocalDate(ms) ==
    LET \* "NaN-NaN-NaN", the date of an invalid timestamp: above every real date.
        InvalidDate == 99
    IN  IF ms = NoTs THEN InvalidDate ELSE ms \div DayMs

\* projectName(projectPath): the last path segment
projectName(project) ==
    CASE project = "/p1" -> "p1"
      [] project = "/p2" -> "p2"
      [] project = "(unknown)/s1" -> "s1"
      [] project = "(unknown)/s2" -> "s2"
      [] OTHER -> project

RedactedPlaceholder == [len |-> 10, sens |-> FALSE, red |-> TRUE]   \* "[redacted]"
NoPromptPlaceholder == [len |-> 11, sens |-> FALSE, red |-> FALSE]  \* "(no prompt)"

\* privacy.redactPrompts ? "[redacted]"
\*   : privacy.redactPatterns.length > 0 ? redactString(text, privacy) : text
PromptDisplay_Unredacted(txt, privacy) == txt

PromptDisplay(txt, privacy) ==
    IF privacy.redactPrompts THEN RedactedPlaceholder
    ELSE IF privacy.patterns THEN redactString(txt, privacy)
    ELSE txt

\* One line of an index file (history.jsonl).  valid: every required field
\* is present with its type (Codex: session_id, ts, text); ts: the timestamp
\* (Claude: ms; Codex: seconds) or NoTs.
IndexEntry(sid, ts, project, txt) ==
    [json |-> "obj", valid |-> TRUE, sessionId |-> sid, ts |-> ts,
     project |-> project, text |-> txt]
BadIndexLine == [IndexEntry("", NoTs, "", NoText) EXCEPT !.json = "bad", !.valid = FALSE]
NullIndexLine == [IndexEntry("", NoTs, "", NoText) EXCEPT !.json = "null", !.valid = FALSE]

\* timeRange: { start: Math.min(...timestamps), end: Math.max(...timestamps) }
TimeRange_FirstLast(ts) == [start |-> ts[1], end |-> ts[Len(ts)]]

TimeRange(ts) ==
    LET SeqMax(s) == CHOOSE x \in {s[k] : k \in 1..Len(s)} : \A k \in 1..Len(s) : x >= s[k]
    IN
    LET SeqMin(s) == CHOOSE x \in {s[k] : k \in 1..Len(s)} : \A k \in 1..Len(s) : x <= s[k]
    IN  [start |-> SeqMin(ts), end |-> SeqMax(ts)]

SessionInfo(sid, project, prompts, ts) ==
    [sessionId |-> sid, project |-> project, projectName |-> projectName(project),
     prompts |-> prompts, promptTimestamps |-> ts, timeRange |-> TimeRange(ts)]

SortByStart(s) ==
    LET \* sessions.sort((a, b) => a.timeRange.start - b.timeRange.start): stable
        Insert(sorted, x) ==
            LET after == {k \in 1..Len(sorted) : sorted[k].timeRange.start > x.timeRange.start}
                at == IF after = {} THEN Len(sorted) + 1
                      ELSE CHOOSE k \in after : \A j \in after : k <= j
            IN  SubSeq(sorted, 1, at - 1) \o <<x>> \o SubSeq(sorted, at, Len(sorted))
    IN
    LET r[k \in 0..Len(s)] == IF k = 0 THEN <<>> ELSE Insert(r[k-1], s[k])
    IN  r[Len(s)]

\* Group the kept entries by session id, in order of first appearance:
\* a Map from id to { project, prompts, timestamps }.
GroupAdd(groups, sid, project, prompt, ts) ==
    IF \E k \in 1..Len(groups) : groups[k].sessionId = sid
    THEN [k \in 1..Len(groups) |->
            IF groups[k].sessionId = sid
            THEN [groups[k] EXCEPT !.prompts = Append(@, prompt),
                                   !.timestamps = Append(@, ts)]
            ELSE groups[k]]
    ELSE Append(groups, [sessionId |-> sid, project |-> project,
                         prompts |-> <<prompt>>, timestamps |-> <<ts>>])

ListRaise == [st |-> "raise", sessions |-> <<>>]
ListOk(sessions) == [st |-> "ok", sessions |-> sessions]

\* Is the index entry kept by the first loop of readClaudeHistory?  A null
\* line throws inside the try; an absent timestamp gives an invalid date.
ClaudeEntryKept(l, from, to, privacy) ==
    /\ l.json = "obj"
    /\ ~(toLocalDate(l.ts) < from \/ toLocalDate(l.ts) > to)
    /\ ~isProjectExcluded(l.project, privacy)

readClaudeHistory(fstate, lines, from, to, privacy) ==
    IF ~FileExists(fstate) THEN ListOk(<<>>)
    ELSE IF TextFails(fstate) THEN ListRaise      \* text() outside any try
    ELSE
    LET entries == SelectSeq(lines, LAMBDA l : ClaudeEntryKept(l, from, to, privacy))
        g[k \in 0..Len(entries)] ==
            IF k = 0 THEN <<>>
            ELSE GroupAdd(g[k-1], entries[k].sessionId, entries[k].project,
                          PromptDisplay(entries[k].text, privacy), entries[k].ts)
        groups == g[Len(entries)]
        sessions == [k \in 1..Len(groups) |->
                        SessionInfo(groups[k].sessionId, groups[k].project,
                                    groups[k].prompts, groups[k].timestamps)]
    IN  ListOk(SortByStart(sessions))

\* readCodexSessionHeader: the loop is inside a try whose catch returns {}.
NoHeader == [run |-> TRUE, failed |-> FALSE, cwd |-> "", gitBranch |-> "", model |-> ""]

HeaderFold(lines) ==
    LET HeaderLine(h, l) ==
            IF l.json = "bad" THEN h
            ELSE IF Throws(l) THEN [h EXCEPT !.run = FALSE, !.failed = TRUE]
            ELSE
            LET h1 == IF l.type = "session_meta"
                      THEN [h EXCEPT !.cwd = l.cwd, !.gitBranch = l.branch]
                      ELSE IF l.type = "turn_context" THEN [h EXCEPT !.model = l.model]
                      ELSE h
            IN  IF h1.cwd # "" /\ h1.model # "" THEN [h1 EXCEPT !.run = FALSE] ELSE h1
    IN
    LET r[k \in 0..Len(lines)] ==
            IF k = 0 THEN NoHeader
            ELSE LET prev == r[k-1]
                 IN  IF ~prev.run THEN prev ELSE HeaderLine(prev, lines[k])
    IN  r[Len(lines)]

readCodexSessionHeader(find, fstate, lines) ==
    IF find = "null" THEN NoHeader
    ELSE IF ~FileExists(fstate) THEN NoHeader
    ELSE IF TextFails(fstate) THEN NoHeader
    ELSE LET h == HeaderFold(lines)
         IN  IF h.failed THEN NoHeader ELSE [h EXCEPT !.run = TRUE]

UnknownProject(sid) == IF sid = "s1" THEN "(unknown)/s1" ELSE "(unknown)/s2"

SecMs == 1000

CodexEntryKept(l, from, to) ==
    /\ l.json = "obj"
    /\ l.valid
    /\ ~(toLocalDate(l.ts * SecMs) < from \/ toLocalDate(l.ts * SecMs) > to)

\* rollouts: [session id -> [find, fstate, lines]], the rollout file of each
\* session as readCodexSessionHeader finds it.
readCodexHistory(fstate, lines, from, to, privacy, rollouts) ==
    IF ~FileExists(fstate) THEN ListOk(<<>>)
    ELSE IF TextFails(fstate) THEN ListRaise
    ELSE
    LET entries == SelectSeq(lines, LAMBDA l : CodexEntryKept(l, from, to))
        g[k \in 0..Len(entries)] ==
            IF k = 0 THEN <<>>
            ELSE GroupAdd(g[k-1], entries[k].sessionId, "",
                          PromptDisplay(entries[k].text, privacy), entries[k].ts * SecMs)
        groups == g[Len(entries)]
        Project(sid) ==
            LET h == readCodexSessionHeader(rollouts[sid].find, rollouts[sid].fstate,
                                            rollouts[sid].lines)
            IN  IF h.cwd # "" THEN h.cwd ELSE UnknownProject(sid)
        sessions == [k \in 1..Len(groups) |->
                        SessionInfo(groups[k].sessionId, Project(groups[k].sessionId),
                                    groups[k].prompts, groups[k].timestamps)]
        kept == SelectSeq(sessions, LAMBDA s : ~isProjectExcluded(s.project, privacy))
    IN  ListOk(SortByStart(kept))

\* readPiHistory: one file of the directory scan.
\*   named : parsePiFilename accepts the file name; date, sessionId: its parts
PiFile(named, date, sid, fstate, lines) ==
    [named |-> named, date |-> date, sessionId |-> sid, fstate |-> fstate,
     lines |-> lines]

PiHeadLine(h, l) ==
    LET \* content.find(b => b.type === "text" && typeof b.text === "string"):
        \* a null block met before the first text block throws.
        FirstTextBlock(content) ==
            LET hits == {k \in 1..Len(content) : content[k].bt \in {"text", "null"}}
            IN  IF hits = {} THEN NullBlock
                ELSE content[CHOOSE k \in hits : \A j \in hits : k <= j]
    IN
    IF l.json = "bad" THEN h
    ELSE IF Throws(l) THEN [h EXCEPT !.run = FALSE, !.failed = TRUE]
    ELSE
    LET h1 == IF l.type = "session"
              THEN [h EXCEPT !.cwd = l.cwd, !.hasTs = TRUE, !.ts = l.ts] ELSE h
        first == FirstTextBlock(l.content)
        isPrompt == l.type = "message" /\ l.hasMsg /\ l.role = "user" /\ ~h1.hasPrompt
        h2 == IF isPrompt /\ first.bt = "text" /\ first.len > 0
              THEN [h1 EXCEPT !.hasPrompt = TRUE,
                              !.prompt = Text(first.len, first.sens)]
              ELSE h1
    IN  IF isPrompt /\ Len(l.content) > 0 /\ first.bt = "null" /\ HasNullBlock(l.content)
        THEN [h1 EXCEPT !.run = FALSE, !.failed = TRUE]
        ELSE IF h2.cwd # "" /\ h2.hasPrompt THEN [h2 EXCEPT !.run = FALSE] ELSE h2

\* The SessionInfo of one scanned file, or nothing (<<>>) when it is skipped.
PiFileSessions(f, from, to, privacy) ==
    LET PiHeadInit ==
            [st |-> "ok", run |-> TRUE, failed |-> FALSE, cwd |-> "", hasTs |-> FALSE,
             ts |-> NoTs, hasPrompt |-> FALSE, prompt |-> NoText]
    IN
    IF ~f.named THEN <<>>
    ELSE IF f.date < from \/ f.date > to THEN <<>>
    ELSE IF ~FileExists(f.fstate) THEN <<>>
    ELSE IF TextFails(f.fstate) THEN <<>>           \* catch: continue
    ELSE
    LET h == FoldLines(PiHeadLine, PiHeadInit, f.lines)
        ts == IF h.hasTs THEN h.ts ELSE f.date * DayMs
        prompt == IF h.hasPrompt THEN PromptDisplay(h.prompt, privacy)
                  ELSE NoPromptPlaceholder
    IN  IF h.failed THEN <<>>
        ELSE IF h.cwd = "" THEN <<>>
        ELSE IF isProjectExcluded(h.cwd, privacy) THEN <<>>
        ELSE << [sessionId |-> f.sessionId, project |-> h.cwd,
                 projectName |-> projectName(h.cwd), prompts |-> <<prompt>>,
                 promptTimestamps |-> <<ts>>,
                 timeRange |-> [start |-> ts, end |-> ts]] >>

readPiHistory(files, from, to, privacy) ==
    LET r[k \in 0..Len(files)] ==
            IF k = 0 THEN <<>>
            ELSE r[k-1] \o PiFileSessions(files[k], from, to, privacy)
    IN  ListOk(SortByStart(r[Len(files)]))

\* readHistory(historyFile, from, to, privacy, { provider, sessionsDir })
readHistory(provider, fstate, lines, from, to, privacy, rollouts) ==
    IF canonicalProvider(provider) = "codex"
    THEN readCodexHistory(fstate, lines, from, to, privacy, rollouts)
    ELSE readClaudeHistory(fstate, lines, from, to, privacy)

-----------------------------------------------------------------------------
(* The tiered reader: List, Peek, Detail, Transcript on one world of files *)

MaxLines == 3       \* lines of a session file
MaxIndex == 3       \* lines of an index file
MaxPiFiles == 2     \* files of a Pi sessions directory

SeqsUpTo(S, n) == UNION {[1..k -> S] : k \in 0..n}

ListIds == {"s1", "s2"}

PrivacyConfigs ==
    {LocalProfile({}), LocalProfile({"/p1"}), ShareableProfile({}), StrictProfile({})}

\* Date ranges [from, to] as day numbers
Ranges == {<<0, 2>>, <<1, 1>>, <<1, 2>>}

LinesOf(provider) ==
    LET PiLines ==
            LET UsageWithCost(i, o, cw, cr, c) ==
                    [has |-> TRUE, i |-> i, o |-> o, cw |-> cw, cr |-> cr, cost |-> c]
            IN
            { BadLine, NullLine,
              [BaseLine EXCEPT !.type = "session", !.cwd = "/p1", !.ts = DayMs + 20000],
              [BaseLine EXCEPT !.type = "model_change", !.model = "m1"],
              [BaseLine EXCEPT !.type = "message", !.hasMsg = TRUE, !.role = "user",
                               !.content = <<TextBlock(5)>>],
              [BaseLine EXCEPT !.type = "message", !.hasMsg = TRUE, !.role = "assistant",
                               !.model = "m2", !.usage = UsageWithCost(2, 1, 0, 1, 3),
                               !.content = <<SensitiveTextBlock(25)>>],
              [BaseLine EXCEPT !.type = "message", !.hasMsg = TRUE, !.role = "assistant",
                               !.usage = Usage(1, 0, 0, 0), !.content = <<NullBlock>>] }
    IN
    LET CodexLines ==
            { BadLine, NullLine,
              [BaseLine EXCEPT !.type = "session_meta", !.cwd = "/p1", !.branch = "main"],
              [BaseLine EXCEPT !.type = "turn_context", !.model = "m1"],
              [BaseLine EXCEPT !.type = "event_msg", !.ptype = "token_count",
                               !.usage = Usage(3, 2, 0, 1)],
              [BaseLine EXCEPT !.type = "response_item", !.ptype = "message", !.role = "user",
                               !.content = <<TextBlock(5)>>],
              [BaseLine EXCEPT !.type = "response_item", !.ptype = "message",
                               !.role = "assistant", !.content = <<SensitiveTextBlock(25)>>] }
    IN
    LET ClaudeLines ==
            LET ThinkingBlock(len) == Block("thinking", len, FALSE, "", "", "")
            IN
            { BadLine, NullLine,
              [BaseLine EXCEPT !.type = "user", !.hasMsg = TRUE, !.role = "user",
                               !.cwd = "/p1", !.branch = "main", !.content = <<TextBlock(5)>>],
              [BaseLine EXCEPT !.type = "assistant", !.hasMsg = TRUE, !.role = "assistant",
                               !.model = "m1", !.cwd = "/p1", !.usage = Usage(3, 2, 1, 1),
                               !.content = <<SensitiveTextBlock(25)>>],
              [BaseLine EXCEPT !.type = "assistant", !.hasMsg = TRUE, !.role = "assistant",
                               !.model = "m2", !.usage = Usage(1, 1, 0, 0),
                               !.content = <<ThinkingBlock(4), ToolBlock("Read", "file_path", "/p1/a.ts")>>],
              [BaseLine EXCEPT !.type = "summary", !.side = TRUE, !.plan = TRUE] }
    IN
    CASE provider = "codex" -> CodexLines
      [] provider = "pi" -> PiLines
      [] OTHER -> ClaudeLines

\* A file as an operation finds it: find is the result of the lookup by
\* session id, fstate the state of the file, lines its content.
File(find, fstate, lines) == [find |-> find, fstate |-> fstate, lines |-> lines]
NoFile == File("null", "missing", <<>>)

\* Session files made of assistant events of one kind, in the event format
\* of the provider:
\*   tool calls, two of them with the same display name and different
\*     targets, and a null line;
\*   responses whose text has 20, 21, 200 and 201 characters, and a file of
\*     SummaryLimit + 1 responses of 21, 22, ... characters;
\*   usage records, one of them with a negative count;
\*   for Pi, model_change events of two models among assistant messages with
\*     and without a model field of their own, and a file where the model
\*     changes twice between three assistant messages.
DetailCases(provider) ==
    LET Event(content, usage) ==
            CASE provider = "codex" /\ usage.has ->
                    [BaseLine EXCEPT !.type = "event_msg", !.ptype = "token_count",
                                     !.usage = usage]
              [] provider = "codex" /\ content[1].bt = "tool" ->
                    [BaseLine EXCEPT !.type = "response_item", !.ptype = "function_call",
                                     !.content = content]
              [] provider = "codex" ->
                    [BaseLine EXCEPT !.type = "response_item", !.ptype = "message",
                                     !.role = "assistant", !.content = content]
              [] provider = "pi" ->
                    [BaseLine EXCEPT !.type = "message", !.hasMsg = TRUE,
                                     !.role = "assistant", !.usage = usage,
                                     !.content = content]
              [] OTHER ->
                    [BaseLine EXCEPT !.type = "assistant", !.hasMsg = TRUE,
                                     !.role = "assistant", !.usage = usage,
                                     !.content = content]
        Calls == { Event(<<b>>, NoUsage) :
                     b \in { ToolBlock("Read", "file_path", "/p1/a.ts"),
                             ToolBlock("Read", "file_path", "/p1/b.ts"),
                             ToolBlock("Bash", "command", "git status"),
                             ToolBlock("Bash", "command", "ls -l") } }
                 \cup {NullLine}
        Responses == { Event(<<TextBlock(n)>>, NoUsage) :
                         n \in {SummaryMinChars, SummaryMinChars + 1,
                                SummaryMaxChars, SummaryMaxChars + 1} }
        Usages == { Event(<<TextBlock(5)>>, Usage(2, 1, 1, 1)),
                    Event(<<TextBlock(5)>>, Usage(-3, 0, 0, 0)) }
        Long == [k \in 1..(SummaryLimit + 1) |->
                    Event(<<TextBlock(SummaryMinChars + k)>>, NoUsage)]
        Models == IF provider # "pi" THEN {}
                  ELSE { [BaseLine EXCEPT !.type = "model_change", !.model = "m1"],
                         [BaseLine EXCEPT !.type = "model_change", !.model = "m3"],
                         [Event(<<TextBlock(5)>>, NoUsage) EXCEPT !.model = "m2"],
                         Event(<<TextBlock(5)>>, NoUsage) }
        Switch == << [Event(<<TextBlock(5)>>, NoUsage) EXCEPT !.model = "m2"],
                     [BaseLine EXCEPT !.type = "model_change", !.model = "m1"],
                     [Event(<<TextBlock(5)>>, NoUsage) EXCEPT !.model = "m2"],
                     [BaseLine EXCEPT !.type = "model_change", !.model = "m3"],
                     Event(<<TextBlock(5)>>, NoUsage) >>
    IN  {File("path", "ok", l) : l \in SeqsUpTo(Calls, MaxLines)}
        \cup {File("path", "ok", l) : l \in SeqsUpTo(Models, MaxLines)}
        \cup (IF provider = "pi" THEN {File("path", "ok", Switch)} ELSE {})
        \cup {File("path", "ok", l) : l \in SeqsUpTo(Responses, MaxLines)}
        \cup {File("path", "ok", l) : l \in SeqsUpTo(Usages, MaxLines)}
        \cup {File("path", "ok", Long)}

SessionFiles(provider) ==
    {File("path", "ok", l) : l \in SeqsUpTo(LinesOf(provider), MaxLines)}
    \cup {File("path", "missing", <<>>), File("path", "unreadable", <<>>)}
    \cup (IF provider = "claude" THEN {} ELSE {NoFile})
    \cup DetailCases(provider)

IndexLinesOf(provider) ==
    LET \* Codex entries: ts in seconds, no project; valid = FALSE: a field has the
        \* wrong type.
        CodexIndexLines ==
            { BadIndexLine, NullIndexLine,
              IndexEntry("s1", 86420, "", Text(7, TRUE)),
              IndexEntry("s1", 86405, "", Text(3, FALSE)),
              IndexEntry("s2", 10, "", Text(4, FALSE)),
              IndexEntry("s2", 172801, "", Text(6, FALSE)),
              [IndexEntry("s1", 86410, "", Text(2, FALSE)) EXCEPT !.valid = FALSE] }
    IN
    LET ClaudeIndexLines ==
            { BadIndexLine, NullIndexLine,
              IndexEntry("s1", DayMs + 20000, "/p1", Text(7, TRUE)),
              IndexEntry("s1", DayMs + 5000, "/p1", Text(3, FALSE)),
              IndexEntry("s2", 10000, "/p2", Text(4, FALSE)),
              IndexEntry("s2", 2 * DayMs + 1000, "/p2", Text(6, FALSE)),
              IndexEntry("s1", NoTs, "/p1", Text(2, FALSE)) }
    IN
    IF provider = "codex" THEN CodexIndexLines ELSE ClaudeIndexLines

IndexFiles(provider) ==
    {File("path", "ok", l) : l \in SeqsUpTo(IndexLinesOf(provider), MaxIndex)}
    \cup {File("path", "missing", <<>>), File("path", "unreadable", <<>>)}

\* The rollout files of the listed Codex sessions (read for their header)
HeaderFiles ==
    { File("path", "ok", << [BaseLine EXCEPT !.type = "session_meta", !.cwd = "/p1"],
                            [BaseLine EXCEPT !.type = "turn_context", !.model = "m1"] >>),
      File("path", "ok", << NullLine,
                            [BaseLine EXCEPT !.type = "session_meta", !.cwd = "/p1"] >>),
      File("path", "unreadable", <<>>),
      NoFile }

NoRollouts == [s \in ListIds |-> NoFile]

Rollouts ==
    {[s \in ListIds |->
        IF s = "s1" THEN h
        ELSE File("path", "ok", << [BaseLine EXCEPT !.type = "session_meta",
                                                     !.cwd = "/p2"] >>)]
     : h \in HeaderFiles}

PiDirFiles ==
    { PiFile(TRUE, 1, "s1", "ok",
             << [BaseLine EXCEPT !.type = "session", !.cwd = "/p1", !.ts = DayMs + 20000],
                [BaseLine EXCEPT !.type = "message", !.hasMsg = TRUE, !.role = "user",
                                 !.content = <<SensitiveTextBlock(7)>>] >>),
      PiFile(TRUE, 0, "s2", "ok",
             << [BaseLine EXCEPT !.type = "session", !.cwd = "/p2", !.ts = 10000] >>),
      PiFile(TRUE, 2, "s2", "ok",
             << [BaseLine EXCEPT !.type = "message", !.hasMsg = TRUE, !.role = "user",
                                 !.content = <<TextBlock(4)>>],
                [BaseLine EXCEPT !.type = "message", !.hasMsg = TRUE, !.role = "user",
                                 !.content = <<TextBlock(9)>>],
                [BaseLine EXCEPT !.type = "session", !.cwd = "/p2",
                                 !.ts = 2 * DayMs + 1000] >>),
      PiFile(TRUE, 1, "s1", "unreadable", <<>>),
      PiFile(TRUE, 1, "s2", "ok",
             << NullLine,
                [BaseLine EXCEPT !.type = "session", !.cwd = "/p1", !.ts = DayMs + 5000] >>),
      PiFile(FALSE, 0, "", "ok", <<>>) }

\* A world: what is on disk and what the caller passes.
\*   tier "index": the index file (or the Pi directory), the date range and,
\*                 for Codex, the rollout files of the sessions;
\*   tier "pass":  one session file, read by Peek, Detail and Transcript.
World(tier, provider, privacy, range, index, rollouts, piFiles, file) ==
    [tier |-> tier, provider |-> provider, privacy |-> privacy,
     from |-> range[1], to |-> range[2], index |-> index, rollouts |-> rollouts,
     piFiles |-> piFiles, file |-> file]

\* The worlds of the index tier: an index file (Claude, Codex) or a Pi
\* sessions directory, with a date range.
IndexWorld(w) ==
    \/ \E pv \in PrivacyConfigs, r \in Ranges, ix \in IndexFiles("claude") :
          w = World("index", "claude", pv, r, ix, NoRollouts, <<>>, NoFile)
    \/ \E pv \in PrivacyConfigs, r \in Ranges, ix \in IndexFiles("codex"),
          ro \in Rollouts :
          w = World("index", "codex", pv, r, ix, ro, <<>>, NoFile)
    \/ \E pv \in PrivacyConfigs, r \in Ranges,
          fs \in SeqsUpTo(PiDirFiles, MaxPiFiles) :
          w = World("index", "pi", pv, r, NoFile, NoRollouts, fs, NoFile)

\* The worlds of the session-file tiers: one session file of a provider.
PassWorld(w) ==
    LET Providers == {"claude", "codex", "pi"}
    IN
    \E pr \in Providers, pv \in PrivacyConfigs : \E f \in SessionFiles(pr) :
        w = World("pass", pr, pv, <<0, 2>>, NoFile, NoRollouts, <<>>, f)

NoMeta == [MetaDefault EXCEPT !.st = "none"]
ReadInit ==
    LET GenIdle == [state |-> "idle", pos |-> 0, cur |-> "", out |-> <<>>]
    IN
    LET NoDetail == [DetailDefault EXCEPT !.st = "none"]
    IN
    LET NoList == [st |-> "none", sessions |-> <<>>]
    IN
    /\ fsFiles = [d \in Dirs |-> {}]
    /\ rolloutIndexCache = [d \in Dirs |-> 0]
    /\ builds = <<>>
    /\ pc = [p \in Callers |-> "idle"]
    /\ arg = [p \in Callers |-> NoArg]
    /\ ref = [p \in Callers |-> 0]
    /\ ret = [p \in Callers |-> [kind |-> "none", path |-> NoPath]]
    /\ calls = 0
    /\ fsOps = 0
    /\ (IndexWorld(world) \/ PassWorld(world))
    /\ listRes = NoList
    /\ peekRes = NoMeta
    /\ detailRes = NoDetail
    /\ gen = GenIdle
    /\ metaRun = [state |-> "idle", sessions |-> <<>>, metas |-> <<>>,
                  order |-> <<>>, out |-> <<>>]
    /\ aggWorld = None
    /\ daily = None
    /\ rangeRun = None
    /\ hours = None
    /\ headerDisk = None
    /\ headerCache = None
    /\ headerCall = None
    /\ headerCalls = 0
    /\ hook = None
    /\ hookOrig = None
    /\ hookOps = <<>>

\* peekSession(provider, session, paths, privacy)
peekSession(provider, file) ==
    IF canonicalProvider(provider) = "codex"
    THEN PeekCodexSession(file.find, file.fstate, file.lines)
    ELSE PeekClaudeSession(file.fstate, file.lines)

\* parseSessionDetail(provider, session, paths, privacy)
parseSessionDetail(provider, file, privacy) ==
    IF canonicalProvider(provider) = "pi"
    THEN ParsePiSessionDetail(file.find, file.fstate, file.lines, privacy)
    ELSE IF canonicalProvider(provider) = "codex"
    THEN ParseCodexSessionDetail(file.find, file.fstate, file.lines, privacy)
    ELSE ParseClaudeSessionDetail(file.fstate, file.lines, privacy)

\* List: readHistory, and for Pi the directory scan readPiHistory
DoList ==
    /\ world.tier = "index"
    /\ listRes.st = "none"
    /\ listRes' = IF world.provider = "pi"
                  THEN readPiHistory(world.piFiles, world.from, world.to, world.privacy)
                  ELSE readHistory(world.provider, world.index.fstate, world.index.lines,
                                   world.from, world.to, world.privacy, world.rollouts)
    /\ UNCHANGED <<world, peekRes, detailRes, gen, metaRun>>
    /\ UNCHANGED <<cacheVars, aggVars, headerVars, hookVars>>

\* Peek: peekSession, and for Pi peekPiSession
DoPeek ==
    /\ world.tier = "pass"
    /\ peekRes.st = "none"
    /\ peekRes' = IF world.provider = "pi"
                  THEN PeekPiSession(world.file.find, world.file.fstate, world.file.lines)
                  ELSE peekSession(world.provider, world.file)
    /\ UNCHANGED <<world, listRes, detailRes, gen, metaRun>>
    /\ UNCHANGED <<cacheVars, aggVars, headerVars, hookVars>>

\* Detail: parseSessionDetail
DoDetail ==
    /\ world.tier = "pass"
    /\ detailRes.st = "none"
    /\ detailRes' = parseSessionDetail(world.provider, world.file, world.privacy)
    /\ UNCHANGED <<world, listRes, peekRes, gen, metaRun>>
    /\ UNCHANGED <<cacheVars, aggVars, headerVars, hookVars>>

\* Transcript: one next() of the generator returned by streamTranscript
\* (for Pi: streamPiTranscript).  The first next() looks the file up, checks
\* that it exists and reads it; every next() runs to the next yield.
TranscriptNext ==
    /\ world.tier = "pass"
    /\ gen.state \in {"idle", "open"}
    /\ gen' =
        IF gen.state = "idle" /\ (world.file.find = "null" \/ ~FileExists(world.file.fstate))
        THEN [gen EXCEPT !.state = "done"]
        ELSE IF gen.state = "idle" /\ TextFails(world.file.fstate)
        THEN [gen EXCEPT !.state = "raised"]
        ELSE LET a == Advance(canonicalProvider(world.provider), world.file.lines,
                              gen.pos, gen.cur, world.privacy)
             IN  [state |-> CASE a.act = "yield" -> "open"
                              [] a.act = "raise" -> "raised"
                              [] OTHER -> "done",
                  pos |-> a.pos, cur |-> a.cur,
                  out |-> IF a.act = "yield" THEN Append(gen.out, a.e) ELSE gen.out]
    /\ UNCHANGED <<world, listRes, peekRes, detailRes, metaRun>>
    /\ UNCHANGED <<cacheVars, aggVars, headerVars, hookVars>>

\* listWithMeta: readHistory, the project filter (none here), then one
\* peekSession per session, all issued before any is awaited.  metas[k] has
\* st = "none" while the k-th peek is pending; order records the peeks in
\* the order they settled.
ListWithMetaStart ==
    /\ world.tier = "index"
    /\ listRes.st = "ok"
    /\ metaRun.state = "idle"
    /\ LET l == IF world.provider = "pi"
                THEN readPiHistory(world.piFiles, world.from, world.to, world.privacy)
                ELSE readHistory(world.provider, world.index.fstate, world.index.lines,
                                 world.from, world.to, world.privacy, world.rollouts)
       IN  metaRun' = IF l.st = "raise" THEN [metaRun EXCEPT !.state = "raised"]
                      ELSE [metaRun EXCEPT !.state = "peeking", !.sessions = l.sessions,
                                           !.metas = [k \in 1..Len(l.sessions) |-> NoMeta]]
    /\ UNCHANGED <<world, listRes, peekRes, detailRes, gen>>
    /\ UNCHANGED <<cacheVars, aggVars, headerVars, hookVars>>

\* The k-th peek settles: peekSession(provider, s, paths, privacy) on the
\* session file of s, the file its own id and project lead to.
PeekSettles(k) ==
    /\ metaRun.state = "peeking"
    /\ k \in 1..Len(metaRun.sessions)
    /\ metaRun.metas[k].st = "none"
    /\ metaRun' = [metaRun EXCEPT
            !.metas[k] = peekSession(world.provider,
                                     world.rollouts[metaRun.sessions[k].sessionId]),
            !.order = Append(@, k)]
    /\ UNCHANGED <<world, listRes, peekRes, detailRes, gen>>
    /\ UNCHANGED <<cacheVars, aggVars, headerVars, hookVars>>

\* What Promise.all resolves to: the values in the order of the promises
\* passed in, each { ...session, <the peeked fields> }.
PromiseAll_Arrival(sessions, metas, order) ==
    [k \in 1..Len(sessions) |-> [info |-> sessions[order[k]], meta |-> metas[order[k]]]]

PromiseAll(sessions, metas, order) ==
    [k \in 1..Len(sessions) |-> [info |-> sessions[k], meta |-> metas[k]]]

ListWithMetaReturn ==
    /\ metaRun.state = "peeking"
    /\ \A k \in 1..Len(metaRun.sessions) : metaRun.metas[k].st # "none"
    /\ metaRun' = [metaRun EXCEPT
            !.state = "done",
            !.out = PromiseAll(metaRun.sessions, metaRun.metas, metaRun.order)]
    /\ UNCHANGED <<world, listRes, peekRes, detailRes, gen>>
    /\ UNCHANGED <<cacheVars, aggVars, headerVars, hookVars>>

ReadNext ==
    \/ DoList
    \/ DoPeek
    \/ DoDetail
    \/ TranscriptNext
    \/ ListWithMetaStart
    \/ \E k \in 1..MaxIndex : PeekSettles(k)
    \/ ListWithMetaReturn

SpecRead == ReadInit /\ [][ReadNext]_vars

-----------------------------------------------------------------------------
(* Aggregations: parseSessions (session-detail.ts), buildDailySummary and   *)
(* buildDailyRange (aggregations/daily.ts), estimateHours (time.ts)         *)

MaxSessions == 3    \* sessions of one day, sessions passed to estimateHours
MaxDay == 3         \* the calendar has the days 0..MaxDay

DetailThreshold == 3

\* session.prompts.length >= 3
IsDetailed_Over(s) == Len(s.prompts) > DetailThreshold

\* Every session with a prompt counted as detailed
IsDetailed_Any(s) == Len(s.prompts) >= 1

IsDetailed(s) == Len(s.prompts) >= DetailThreshold

\* parseSessions(provider, sessions, paths, privacy); files[k] is the
\* session file of sessions[k].  A detail that raises rejects the call.
parseSessions(provider, sessions, files, privacy) ==
    LET Place(prev, s, d) ==
            IF prev.st = "raise" THEN prev
            ELSE IF ~IsDetailed(s) THEN [prev EXCEPT !.short = Append(@, s)]
            ELSE IF d.st = "raise" THEN [prev EXCEPT !.st = "raise"]
            ELSE [prev EXCEPT !.detailed = Append(@, [session |-> s, detail |-> d])]
        r[k \in 0..Len(sessions)] ==
            IF k = 0 THEN [st |-> "ok", detailed |-> <<>>, short |-> <<>>]
            ELSE Place(r[k-1], sessions[k],
                       parseSessionDetail(provider, files[k], privacy))
    IN  r[Len(sessions)]

\* buildDailySummary(provider, date, paths, privacy).  day is what the
\* readers return for the date: sessions = readHistory(date, date) with the
\* file of each session, tasks / plans / todos = the number of items
\* readTasks / readPlans / readTodos return.
buildDailySummary(provider, date, day, privacy) ==
    LET names == LET r[k \in 0..Len(day.sessions)] ==
                         IF k = 0 THEN <<>>
                         ELSE SetAdd(r[k-1], day.sessions[k].projectName)
                 IN  r[Len(day.sessions)]
        prompts == LET r[k \in 0..Len(day.sessions)] ==
                           IF k = 0 THEN 0 ELSE r[k-1] + Len(day.sessions[k].prompts)
                   IN  r[Len(day.sessions)]
        Summary(p) ==
            [st |-> p.st, date |-> date, sessions |-> p.detailed,
             shortSessions |-> p.short, tasks |-> day.tasks, plans |-> day.plans,
             todos |-> day.todos, totalPrompts |-> prompts,
             totalSessions |-> Len(day.sessions), projects |-> names]
    IN  Summary(parseSessions(provider, day.sessions, day.files, privacy))

\* d.setDate(d.getDate() + 1): the same local wall-clock time on the next
\* local day, converted back to an instant.
SetDateNextDay(zone, h) ==
    LET offset == IF h < zone.switch THEN zone.before ELSE zone.after
        wall == h + offset + 24
    IN  IF wall - zone.before < zone.switch THEN wall - zone.before
        ELSE wall - zone.after

GapCapMs == 900000
SingleStampMs == 300000

\* Math.min(gap, GAP_CAP_MS)
GapCapped_Uncapped(gap) == gap

GapCapped(gap) == IF gap < GapCapMs THEN gap ELSE GapCapMs

\* The timestamps a session adds to the timeline
Contributed_Unfiltered(s) ==
    IF Len(s.promptTimestamps) > 0 THEN s.promptTimestamps
    ELSE <<s.timeRange.start, s.timeRange.end>>

Contributed(s) ==
    IF Len(s.promptTimestamps) > 0 THEN s.promptTimestamps
    ELSE SelectSeq(<<s.timeRange.start, s.timeRange.end>>, LAMBDA t : t > 0)

\* allTimestamps.sort((a, b) => a - b)
SortNums_Unsorted(s) == s

\* A timeline left in reverse order of arrival
SortNums_Reversed(s) == [k \in 1..Len(s) |-> s[Len(s) + 1 - k]]

SortNums(s) ==
    LET Ins(sorted, x) ==
            LET after == {k \in 1..Len(sorted) : sorted[k] > x}
                at == IF after = {} THEN Len(sorted) + 1
                      ELSE CHOOSE k \in after : \A j \in after : k <= j
            IN  SubSeq(sorted, 1, at - 1) \o <<x>> \o SubSeq(sorted, at, Len(sorted))
        r[k \in 0..Len(s)] == IF k = 0 THEN <<>> ELSE Ins(r[k-1], s[k])
    IN  r[Len(s)]

\* estimateHours(sessions).  The result is in milliseconds: the code divides
\* by 3 600 000 when it returns, and 5 / 60 hours is 300 000 ms.
estimateHours(sessions) ==
    LET all[k \in 0..Len(sessions)] ==
            IF k = 0 THEN <<>> ELSE all[k-1] \o Contributed(sessions[k])
        allTimestamps == SortNums(all[Len(sessions)])
        total[i \in 1..Len(allTimestamps)] ==
            IF i = 1 THEN 0
            ELSE total[i-1] + GapCapped(allTimestamps[i] - allTimestamps[i-1])
    IN  IF Len(sessions) = 0 THEN 0
        ELSE IF Len(allTimestamps) = 0 THEN 0
        ELSE IF Len(allTimestamps) = 1 THEN SingleStampMs
        ELSE total[Len(allTimestamps)]

\* What a day holds: session shapes <<prompts, state of the session file>>
\* and the number of tasks, plans and todos.
Day(shapes, tasks, plans, todos) ==
    LET \* The session with id n of a day: prompts prompts, a minute apart.
        DaySession(n, prompts) ==
            SessionInfo("s" \o ToString(n), IF n = 2 THEN "/p2" ELSE "/p1",
                        [i \in 1..prompts |-> Text(3, FALSE)],
                        [i \in 1..prompts |-> DayMs + 60000 * (n + i)])
    IN
    [sessions |-> [k \in 1..Len(shapes) |-> DaySession(k, shapes[k][1])],
     files |-> [k \in 1..Len(shapes) |->
                   IF shapes[k][2] = "ok"
                   THEN File("path", "ok",
                             << [BaseLine EXCEPT !.hasMsg = TRUE, !.role = "assistant",
                                                 !.model = "m1", !.usage = Usage(1, 1, 0, 0),
                                                 !.content = <<TextBlock(25)>>] >>)
                   ELSE File("path", shapes[k][2], <<>>)],
     tasks |-> tasks, plans |-> plans, todos |-> todos]

\* The inputs of the aggregations:
\*   kind "day":   buildDailySummary on one date;
\*   kind "range": buildDailyRange(from, to) over a calendar, in a time zone;
\*   kind "hours": estimateHours(sessions).
AggInit ==
    LET \* The time zone of the process: UTC offset in hours before and after one
        \* change of offset at the instant switch.  Instants are hours since day 0,
        \* 00:00 UTC; a date is a day number; new Date("YYYY-MM-DD") is midnight UTC
        \* (day * 24) and toISOString().slice(0, 10) the UTC day (instant \div 24).
        \*   UTC; Europe/Copenhagen in March (02:00 CET -> 03:00 CEST on day 2);
        \*   America/Los_Angeles in November (02:00 PDT -> 01:00 PST on day 2).
        Zones ==
            { [before |-> 0, after |-> 0, switch |-> 0],
              [before |-> 1, after |-> 2, switch |-> 2 * 24 + 1],
              [before |-> -7, after |-> -8, switch |-> 2 * 24 + 9] }
    IN
    LET \* Sessions passed to estimateHours, in minutes after a first instant:
        \* listed sessions (with prompt timestamps, in index order) and sessions
        \* without prompts as sessions.detail builds them (a time range only).
        HourSessions ==
            LET At(min) == DayMs + 60000 * min
                Prompted(ts) == SessionInfo("s1", "/p1", [i \in 1..Len(ts) |-> Text(3, FALSE)], ts)
                Ranged(start, end) ==
                    [Prompted(<<1>>) EXCEPT !.prompts = <<>>, !.promptTimestamps = <<>>,
                                          !.timeRange = [start |-> start, end |-> end]]
            IN  { Prompted(<<At(0), At(5)>>), Prompted(<<At(0), At(40)>>), Prompted(<<At(40), At(0)>>),
                  Prompted(<<At(10), At(30)>>), Prompted(<<At(2), At(4)>>), Prompted(<<At(5)>>),
                  Ranged(0, 0), Ranged(0, At(10)), Ranged(At(0), At(40)) }
    IN
    LET \* The days of a calendar: empty, only todos, a task, a plan, a session.
        DayKinds ==
            { Day(<<>>, 0, 0, 0), Day(<<>>, 0, 0, 1), Day(<<>>, 1, 0, 0), Day(<<>>, 0, 1, 1),
              Day(<< <<1, "ok">> >>, 0, 0, 0) }
    IN
    /\ fsFiles = [d \in Dirs |-> {}]
    /\ rolloutIndexCache = [d \in Dirs |-> 0]
    /\ builds = <<>>
    /\ pc = [p \in Callers |-> "idle"]
    /\ arg = [p \in Callers |-> NoArg]
    /\ ref = [p \in Callers |-> 0]
    /\ ret = [p \in Callers |-> [kind |-> "none", path |-> NoPath]]
    /\ calls = 0
    /\ fsOps = 0
    /\ world = None
    /\ listRes = None
    /\ peekRes = None
    /\ detailRes = None
    /\ gen = None
    /\ metaRun = None
    /\ \/ \E shapes \in SeqsUpTo((1..4) \X {"ok", "unreadable"}, MaxSessions),
             tasks \in 0..1 :
             aggWorld = [kind |-> "day", day |-> Day(shapes, tasks, 0, 1)]
       \/ \E from \in 0..MaxDay, to \in 0..MaxDay, zone \in Zones,
             calendar \in [0..MaxDay -> DayKinds] :
             aggWorld = [kind |-> "range", from |-> from, to |-> to, zone |-> zone,
                         calendar |-> calendar]
       \/ \E sessions \in SeqsUpTo(HourSessions, MaxSessions) :
             aggWorld = [kind |-> "hours", sessions |-> sessions]
    /\ daily = [st |-> "none"]
    /\ rangeRun = [state |-> "idle", d |-> 0, built |-> <<>>, out |-> <<>>]
    /\ hours = [st |-> "none", ms |-> 0, passed |-> <<>>]
    /\ headerDisk = None
    /\ headerCache = None
    /\ headerCall = None
    /\ headerCalls = 0
    /\ hook = None
    /\ hookOrig = None
    /\ hookOps = <<>>

\* aggregate.daily(date): buildDailySummary
BuildDay ==
    /\ aggWorld.kind = "day"
    /\ daily.st = "none"
    /\ daily' = buildDailySummary("claude", 1, aggWorld.day, LocalProfile({}))
    /\ UNCHANGED <<aggWorld, rangeRun, hours>>
    /\ UNCHANGED <<cacheVars, readVars, headerVars, hookVars>>

\* aggregate.dailyRange(from, to): one test of d <= end and, when it holds,
\* one iteration of the loop of buildDailyRange (it awaits the summary of
\* the day); built records the dates summaries were built for.
RangeStep ==
    /\ aggWorld.kind = "range"
    /\ rangeRun.state \in {"idle", "run"}
    /\ LET d == IF rangeRun.state = "idle" THEN aggWorld.from * 24 ELSE rangeRun.d
           dateStr == d \div 24
           Body(summary) ==
             IF summary.st = "raise" THEN [rangeRun EXCEPT !.state = "raised", !.d = d]
             ELSE [state |-> "run",
                   d |-> SetDateNextDay(aggWorld.zone, d),
                   built |-> Append(rangeRun.built, dateStr),
                   out |-> IF summary.totalSessions > 0 \/ summary.tasks > 0
                              \/ summary.plans > 0
                           THEN Append(rangeRun.out, summary) ELSE rangeRun.out]
       IN  rangeRun' =
             IF d > aggWorld.to * 24 THEN [rangeRun EXCEPT !.state = "done", !.d = d]
             ELSE Body(buildDailySummary("claude", dateStr, aggWorld.calendar[dateStr],
                                         LocalProfile({})))
    /\ UNCHANGED <<aggWorld, daily, hours>>
    /\ UNCHANGED <<cacheVars, readVars, headerVars, hookVars>>

\* The caller's arrays after the call, had the timeline been built by
\* sorting each session's own promptTimestamps array in place.
ArraysAfter_SortedInPlace(sessions) ==
    [k \in 1..Len(sessions) |->
        [sessions[k] EXCEPT !.promptTimestamps = SortNums(@)]]

\* The caller's session objects after the call: allTimestamps is a new
\* array filled by push(...session.promptTimestamps) and the only array
\* sorted, so the sessions are as they were passed in.
ArraysAfter(sessions) == sessions

\* aggregate.estimateHours(sessions); passed notes the sessions as they
\* were when the call was made.
DoEstimate ==
    /\ aggWorld.kind = "hours"
    /\ hours.st = "none"
    /\ hours' = [st |-> "ok", ms |-> estimateHours(aggWorld.sessions),
                 passed |-> aggWorld.sessions]
    /\ aggWorld' = [aggWorld EXCEPT !.sessions = ArraysAfter(@)]
    /\ UNCHANGED <<daily, rangeRun>>
    /\ UNCHANGED <<cacheVars, readVars, headerVars, hookVars>>

AggNext ==
    \/ BuildDay
    \/ RangeStep
    \/ DoEstimate

SpecAgg == AggInit /\ [][AggNext]_vars

-----------------------------------------------------------------------------
(* The Codex header cache: readCodexSessionHeader and its callers *)

MaxHeaderCalls == 3

\* readCodexSessionHeader(sessionsDir, s) up to its await, by a caller that
\* starts a read on every call and replaces the entry.
CallHeader_NoMemo(p, s) ==
    /\ headerCall[p].pc = "idle"
    /\ headerCalls < MaxHeaderCalls
    /\ headerCalls' = headerCalls + 1
    /\ headerCache' = [headerCache EXCEPT ![s] =
                          [state |-> "pending", header |-> NoHeader, reads |-> @.reads + 1]]
    /\ headerCall' = [headerCall EXCEPT ![p] = [@ EXCEPT !.pc = "await", !.id = s, !.st = "none"]]
    /\ UNCHANGED headerDisk
    /\ UNCHANGED <<cacheVars, readVars, aggVars, hookVars>>

\* readCodexSessionHeader(sessionsDir, s) up to its await: headerCache.get,
\* and on a miss the read is started and its promise stored under the key.
CallHeader(p, s) ==
    /\ headerCall[p].pc = "idle"
    /\ headerCalls < MaxHeaderCalls
    /\ headerCalls' = headerCalls + 1
    /\ headerCache' = IF headerCache[s].state = "none"
                      THEN [headerCache EXCEPT ![s] =
                              [state |-> "pending", header |-> NoHeader, reads |-> @.reads + 1]]
                      ELSE headerCache
    /\ headerCall' = [headerCall EXCEPT ![p] = [@ EXCEPT !.pc = "await", !.id = s, !.st = "none"]]
    /\ UNCHANGED headerDisk
    /\ UNCHANGED <<cacheVars, readVars, aggVars, hookVars>>

\* The read of a key settles with the header of the rollout file as it is
\* on disk now ({} when there is none, or when it cannot be read).
HeaderSettles(s) ==
    /\ headerCache[s].state = "pending"
    /\ headerCache' = [headerCache EXCEPT ![s] =
            [@ EXCEPT !.state = "settled",
                      !.header = readCodexSessionHeader(headerDisk[s].find,
                                     headerDisk[s].fstate, headerDisk[s].lines)]]
    /\ UNCHANGED <<headerDisk, headerCall, headerCalls>>
    /\ UNCHANGED <<cacheVars, readVars, aggVars, hookVars>>

\* The caller (readCodexHistory) resumes with the header and derives the
\* project: header.cwd ?? `(unknown)/${sessionId}`.  onDisk notes whether the
\* rollout file existed at that moment.
HeaderReturn(p) ==
    /\ headerCall[p].pc = "await"
    /\ headerCache[headerCall[p].id].state = "settled"
    /\ LET s == headerCall[p].id
           h == headerCache[s].header
       IN  headerCall' = [headerCall EXCEPT ![p] =
               [pc |-> "idle", id |-> s, st |-> "ok", header |-> h,
                project |-> IF h.cwd # "" THEN h.cwd ELSE UnknownProject(s),
                onDisk |-> headerDisk[s] # NoFile]]
    /\ UNCHANGED <<headerDisk, headerCache, headerCalls>>
    /\ UNCHANGED <<cacheVars, readVars, aggVars, hookVars>>

\* Codex writes the rollout file of a session that had none.
CreateRollout(s, f) ==
    /\ headerDisk[s] = NoFile
    /\ f # NoFile
    /\ headerDisk' = [headerDisk EXCEPT ![s] = f]
    /\ UNCHANGED <<headerCache, headerCall, headerCalls>>
    /\ UNCHANGED <<cacheVars, readVars, aggVars, hookVars>>

HeaderInit ==
    /\ fsFiles = [d \in Dirs |-> {}]
    /\ rolloutIndexCache = [d \in Dirs |-> 0]
    /\ builds = <<>>
    /\ pc = [p \in Callers |-> "idle"]
    /\ arg = [p \in Callers |-> NoArg]
    /\ ref = [p \in Callers |-> 0]
    /\ ret = [p \in Callers |-> [kind |-> "none", path |-> NoPath]]
    /\ calls = 0
    /\ fsOps = 0
    /\ world = None
    /\ listRes = None
    /\ peekRes = None
    /\ detailRes = None
    /\ gen = None
    /\ metaRun = None
    /\ aggWorld = None
    /\ daily = None
    /\ rangeRun = None
    /\ hours = None
    /\ headerDisk \in [ListIds -> HeaderFiles]
    /\ headerCache = [s \in ListIds |-> [state |-> "none", header |-> NoHeader, reads |-> 0]]
    /\ headerCall = [p \in Callers |->
                        [pc |-> "idle", id |-> None, st |-> "none", header |-> NoHeader,
                         project |-> "", onDisk |-> FALSE]]
    /\ headerCalls = 0
    /\ hook = None
    /\ hookOrig = None
    /\ hookOps = <<>>

HeaderNext ==
    \/ \E p \in Callers, s \in ListIds : CallHeader(p, s)
    \/ \E s \in ListIds : HeaderSettles(s)
    \/ \E p \in Callers : HeaderReturn(p)
    \/ \E s \in ListIds, f \in HeaderFiles : CreateRollout(s, f)

SpecHeader == HeaderInit /\ [][HeaderNext]_vars

-----------------------------------------------------------------------------
(* The post-commit hook of examples/commit-tracker.ts: install, uninstall *)

MaxHookLines == 3   \* lines of the hook file before the first command
MaxHookOps == 3     \* commands run on one repository

MARKER_START == "# claude-optic: ai-usage-tracker"
MARKER_END == "# end claude-optic"

\* A text is the sequence of its lines, text.split("\n"): the empty text is
\* one empty line and a text ending in a newline ends with an empty line.
\* A line is its trimmed body with the white space before and after it
\* (0: none, 1: some); a line of white space only has an empty body.
Ln(lead, body, trail) == [lead |-> lead, body |-> body, trail |-> trail]

Blank == Ln(0, "", 0)

\* Lines a hook file is made of: the shell header, a command (plain and
\* indented with a trailing blank), a line of blanks, and a command that
\* mentions the marker text inside a longer line.
Shebang == Ln(0, "#!/bin/sh", 0)
Mention == Ln(0, "echo \"# claude-optic: ai-usage-tracker\"", 0)

\* [MARKER_START, `bun ${scriptPath} run 2>/dev/null || true`, MARKER_END]
hookBlock ==
    << Ln(0, MARKER_START, 0), Ln(0, "bun commit-tracker.ts run 2>/dev/null || true", 0),
       Ln(0, MARKER_END, 0) >>

\* a + b on strings, where the last line of a or the first line of b is
\* empty (every concatenation of install and uninstall is of that kind).
Plus(a, b) ==
    SubSeq(a, 1, Len(a) - 1)
        \o << IF a[Len(a)] = Blank THEN b[1] ELSE a[Len(a)] >>
        \o Tail(b)

\* text.includes(MARKER_START): the marker is on one line, so the text
\* holds it when one of its lines does.
includes(text) ==
    \E k \in 1..Len(text) : text[k].body \in {MARKER_START, Mention.body}

\* text.trimEnd(): the white space at the end of the text, line breaks
\* included, is dropped.
trimEnd(text) ==
    LET full == {k \in 1..Len(text) : text[k].body # ""}
    IN  IF full = {} THEN <<Blank>>
        ELSE LET last == CHOOSE k \in full : \A j \in full : j <= k
             IN  [k \in 1..last |->
                    IF k = last THEN [text[k] EXCEPT !.trail = 0] ELSE text[k]]

\* text.trim() keeping the white space at the start
trim_EndOnly(text) == trimEnd(text)

\* text.trim(): white space at both ends is dropped.
trim(text) ==
    LET full == {k \in 1..Len(text) : text[k].body # ""}
    IN  IF full = {} THEN <<Blank>>
        ELSE LET first == CHOOSE k \in full : \A j \in full : k <= j
                 t == trimEnd(text)
             IN  [k \in 1..(Len(t) - first + 1) |->
                    IF k = 1 THEN [t[first] EXCEPT !.lead = 0] ELSE t[first + k - 1]]

NoHook == [exists |-> FALSE, text |-> <<>>, exec |-> FALSE]

\* commit-tracker install
install ==
    /\ Len(hookOps) < MaxHookOps
    /\ hookOps' = Append(hookOps, "install")
    /\ hook' =
         IF hook.exists
         THEN IF includes(hook.text) THEN hook           \* "Hook already installed."
              ELSE [hook EXCEPT
                      !.text = Plus(Plus(Plus(trimEnd(hook.text), <<Blank, Blank, Blank>>),
                                         hookBlock), <<Blank, Blank>>),
                      !.exec = TRUE]
         ELSE [exists |-> TRUE,
               text |-> Plus(Plus(<<Shebang, Blank, Blank>>, hookBlock), <<Blank, Blank>>),
               exec |-> TRUE]
    /\ UNCHANGED hookOrig
    /\ UNCHANGED <<cacheVars, readVars, aggVars, headerVars>>

\* commit-tracker uninstall
uninstall ==
    LET \* The lines uninstall keeps: those outside a MARKER_START .. MARKER_END run
        \* (inside is the flag of the loop).
        Filtered(text) ==
            LET r[k \in 0..Len(text)] ==
                    IF k = 0 THEN [inside |-> FALSE, out |-> <<>>]
                    ELSE IF text[k].body = MARKER_START THEN [r[k-1] EXCEPT !.inside = TRUE]
                    ELSE IF text[k].body = MARKER_END THEN [r[k-1] EXCEPT !.inside = FALSE]
                    ELSE IF ~r[k-1].inside THEN [r[k-1] EXCEPT !.out = Append(@, text[k])]
                    ELSE r[k-1]
            IN  r[Len(text)].out
    IN
    /\ Len(hookOps) < MaxHookOps
    /\ hookOps' = Append(hookOps, "uninstall")
    /\ hook' =
         IF ~hook.exists THEN hook                       \* "No post-commit hook found."
         ELSE IF ~includes(hook.text) THEN hook          \* "Hook not installed ..."
         ELSE LET filtered == Filtered(hook.text)
                  remaining == trim(IF filtered = <<>> THEN <<Blank>> ELSE filtered)
              IN  IF remaining = <<Shebang>> \/ remaining = <<Blank>>
                  THEN NoHook                            \* rm hookPath
                  ELSE [hook EXCEPT !.text = Plus(remaining, <<Blank, Blank>>)]
    /\ UNCHANGED hookOrig
    /\ UNCHANGED <<cacheVars, readVars, aggVars, headerVars>>

\* The repository before the first command: no post-commit hook, or a hook
\* file of up to MaxHookLines lines.
HookInit ==
    /\ hook \in {NoHook} \cup
         { [exists |-> TRUE, text |-> t, exec |-> e] :
             t \in SeqsUpTo({Blank, Ln(0, "", 1), Shebang, Ln(0, "echo hi", 0),
                             Ln(1, "echo hi", 1), Mention, hookBlock[1], hookBlock[3]},
                            MaxHookLines) \ {<<>>},
             e \in BOOLEAN }
    /\ hookOrig = hook
    /\ hookOps = <<>>
    /\ fsFiles = None /\ rolloutIndexCache = None /\ builds = None
    /\ pc = None /\ arg = None /\ ref = None /\ ret = None
    /\ calls = 0 /\ fsOps = 0
    /\ world = None /\ listRes = None /\ peekRes = None /\ detailRes = None
    /\ gen = None /\ metaRun = None
    /\ aggWorld = None /\ daily = None /\ rangeRun = None /\ hours = None
    /\ headerDisk = None /\ headerCache = None /\ headerCall = None
    /\ headerCalls = 0

HookNext == install \/ uninstall

SpecHook == HookInit /\ [][HookNext]_vars

-----------------------------------------------------------------------------
(* Claims about the directory-index cache *)

BuildsOf(d) == {b \in DOMAIN builds : builds[b].dir = d}

\* C1: for every interleaving of concurrent findRolloutFile calls, the index
\* scan of a directory is started at most once, and all callers of one
\* directory await / receive the same index map (the same promise).
C1_SingleFlight ==
    /\ \A d \in Dirs : Cardinality(BuildsOf(d)) <= 1
    /\ \A p, q \in Callers :
         (ref[p] # 0 /\ ref[q] # 0 /\ builds[ref[p]].dir = builds[ref[q]].dir)
            => ref[p] = ref[q]
    /\ \A d \in Dirs : rolloutIndexCache[d] # 0 => BuildsOf(d) = {rolloutIndexCache[d]}

\* Two callers suspended on the same directory's still-pending build.
C1_Witness ==
    /\ pc["c1"] = "awaitIndex" /\ pc["c2"] = "awaitIndex"
    /\ arg["c1"].dir = arg["c2"].dir
    /\ ref["c1"] # 0 /\ builds[ref["c1"]].state = "pending"

\* C2: a fallback search that finds a file inserts the found path under the
\* looked-up id into the directory's existing index map, changes no other
\* entry, starts no build and leaves the cache entry alone; an entry once
\* present is never removed; and a lookup goes on to a search only when the
\* directory's cached index has no entry for the id (so a later lookup of an
\* inserted id is answered from the cache).
C2_SelfHealing ==
    [][ /\ \A p \in Callers :
             (pc[p] = "search" /\ pc'[p] = "idle" /\ ret'[p].kind = "found") =>
                /\ builds'[ref[p]].index[arg[p].id] = ret'[p].path
                /\ ret'[p].path \in fsFiles[arg[p].dir]
                /\ \A s \in SessionIds \ {arg[p].id} :
                       builds'[ref[p]].index[s] = builds[ref[p]].index[s]
                /\ Len(builds') = Len(builds)
                /\ \A b \in DOMAIN builds : b # ref[p] => builds'[b] = builds[b]
                /\ rolloutIndexCache' = rolloutIndexCache
                /\ rolloutIndexCache[arg[p].dir] = ref[p]
        /\ \A b \in DOMAIN builds, s \in SessionIds :
             (builds[b].state = "resolved" /\ builds[b].index[s] # NoPath)
                => builds'[b].index[s] # NoPath
        /\ \A p \in Callers :
             (pc[p] = "awaitIndex" /\ pc'[p] = "search") =>
                builds[rolloutIndexCache[arg[p].dir]].index[arg[p].id] = NoPath
      ]_vars

\* One caller's search found a file no index build can list (not a rollout
\* name), and another caller's later lookup was answered with it from the cache.
C2_Witness ==
    \E p, q \in Callers :
        /\ p # q
        /\ ret[p].kind = "found" /\ ~ret[p].path.rollout
        /\ ret[q].kind = "cached" /\ ret[q].path = ret[p].path

-----------------------------------------------------------------------------
(* Claims about the tiered reader *)

Listed == IF listRes.st = "ok" THEN {listRes.sessions[k] : k \in 1..Len(listRes.sessions)}
          ELSE {}

StampsOf(s) == {s.promptTimestamps[k] : k \in 1..Len(s.promptTimestamps)}

PeekDone == world.tier = "pass" /\ peekRes.st # "none"
DetailDone == world.tier = "pass" /\ detailRes.st # "none"

\* C4: for every provider and every session file, the four token sums of
\* Peek equal the four token sums of Detail on the same file.
C4_PeekDetailTokens ==
    PeekDone /\ DetailDone /\ peekRes.st = "ok" /\ detailRes.st = "ok" =>
        peekRes.tok = detailRes.tok

MessagesBefore(lines, j) ==
    {k \in 1..(j - 1) : lines[k].json = "obj" /\ lines[k].type = "response_item"
                        /\ lines[k].ptype = "message"}

\* C5: in a Codex session file where a turn_context declaring model M comes
\* after one or more response_item messages, every message of the transcript
\* carries M, the messages before the turn_context line included.
C5_ModelOnEveryMessage ==
    /\ world.tier = "pass" /\ world.provider = "codex"
    /\ gen.state = "done"
    /\ \E j \in 1..Len(world.file.lines) :
        /\ world.file.lines[j].json = "obj"
        /\ world.file.lines[j].type = "turn_context"
        /\ world.file.lines[j].model = "m1"
        /\ MessagesBefore(world.file.lines, j) # {}
    => \A k \in 1..Len(gen.out) : gen.out[k].hasMsg => gen.out[k].model = "m1"

WellFormed(l) == l.json = "obj"
CleanFile(f) == [f EXCEPT !.lines = SelectSeq(@, WellFormed)]

\* The transcript of a whole file: every entry the generator yields when it
\* is run to its end; raised when it ends with an exception.
Drain(fmt, lines, privacy) ==
    LET RECURSIVE Go(_, _, _)
        Go(pos, cur, out) ==
            LET a == Advance(fmt, lines, pos, cur, privacy)
            IN  IF a.act = "yield" THEN Go(a.pos, a.cur, Append(out, a.e))
                ELSE [raised |-> a.act = "raise", out |-> out]
    IN  Go(0, "", <<>>)

PeekOf(provider, file) ==
    IF provider = "pi" THEN PeekPiSession(file.find, file.fstate, file.lines)
    ELSE peekSession(provider, file)

ListOf(w) ==
    IF w.provider = "pi" THEN readPiHistory(w.piFiles, w.from, w.to, w.privacy)
    ELSE readHistory(w.provider, w.index.fstate, w.index.lines, w.from, w.to,
                     w.privacy, w.rollouts)

CleanWorld(w) ==
    [w EXCEPT !.index = CleanFile(@),
              !.rollouts = [s \in ListIds |-> CleanFile(@[s])],
              !.piFiles = [k \in 1..Len(@) |-> CleanFile(@[k])]]

\* C6: in every pass (index read, header read, peek, detail, transcript) a
\* line that is not a well-formed event raises nothing and only that line is
\* skipped: the result is the result for the file without its bad lines.
C6_MalformedSkipped ==
    /\ PeekDone => peekRes = PeekOf(world.provider, CleanFile(world.file))
    /\ DetailDone /\ world.file.fstate = "ok" =>
          detailRes = parseSessionDetail(world.provider, CleanFile(world.file),
                                         world.privacy)
    /\ world.tier = "pass" /\ world.file.fstate = "ok" =>
          /\ gen.state # "raised"
          /\ gen.state = "done" =>
                gen.out = Drain(canonicalProvider(world.provider),
                                CleanFile(world.file).lines, world.privacy).out
    /\ world.tier = "index" /\ listRes.st # "none" /\ world.index.fstate # "unreadable" =>
          listRes = ListOf(CleanWorld(world))

Missing(f) == f.find = "null" \/ f.fstate = "missing"
Unreadable(f) == f.find = "path" /\ f.fstate = "unreadable"

\* C7: when the session file does not exist, Peek returns zero counters,
\* Detail additionally empty lists and false flags, Transcript an empty
\* sequence, none of them raising; when the index file does not exist List
\* returns an empty list; List never raises because a session file is absent.
C7_MissingFileDefaults ==
    /\ world.tier = "pass" /\ Missing(world.file) =>
        /\ PeekDone => peekRes = MetaDefault
        /\ DetailDone => detailRes = DetailDefault
        /\ gen.state # "idle" => gen.state = "done" /\ gen.out = <<>>
    /\ world.tier = "index" /\ listRes.st # "none" =>
        /\ world.provider # "pi" /\ world.index.fstate = "missing" =>
              listRes = ListOk(<<>>)
        /\ world.provider = "pi" \/ world.index.fstate = "ok" => listRes.st = "ok"

\* All three session-file operations were run on a path whose file is gone
\* (a path remembered by the directory index, or computed from the project).
C7_Witness ==
    /\ world.tier = "pass"
    /\ world.file.find = "path" /\ world.file.fstate = "missing"
    /\ peekRes.st = "ok" /\ detailRes.st = "ok" /\ gen.state = "done"

\* C8 as stated: an I/O error other than not-found on an existing index or
\* session file propagates to the caller of List, Peek, Detail and Transcript.
C8_IoErrorPropagates ==
    /\ world.tier = "pass" /\ Unreadable(world.file) =>
        /\ PeekDone => peekRes.st = "raise"
        /\ DetailDone => detailRes.st = "raise"
        /\ gen.state # "idle" => gen.state = "raised"
    /\ world.tier = "index" /\ world.provider # "pi" /\ Unreadable(world.index)
       /\ listRes.st # "none" => listRes.st = "raise"

Readable(f) == f.fstate # "unreadable"

\* C8, amended: an I/O error on an existing file propagates from List (the
\* index file), from Detail of Claude and Codex and from Transcript; Peek of
\* every provider and Detail of Pi mask it and return the default result;
\* List masks it on the files it reads per session: a Codex rollout header
\* reads as empty (unknown project), an unreadable Pi file is skipped.
C8_IoErrorPolicy ==
    /\ world.tier = "pass" /\ Unreadable(world.file) =>
        /\ PeekDone => peekRes = MetaDefault
        /\ DetailDone => IF world.provider = "pi" THEN detailRes = DetailDefault
                         ELSE detailRes.st = "raise"
        /\ gen.state # "idle" => gen.state = "raised" /\ gen.out = <<>>
    /\ world.tier = "index" /\ listRes.st # "none" =>
        /\ world.provider # "pi" /\ Unreadable(world.index) => listRes.st = "raise"
        /\ world.provider = "codex" /\ world.index.fstate = "ok"
           /\ Unreadable(world.rollouts["s1"]) =>
              /\ listRes.st = "ok"
              /\ \A s \in Listed : s.sessionId = "s1" => s.project = UnknownProject("s1")
        /\ world.provider = "pi" =>
              listRes = readPiHistory(SelectSeq(world.piFiles, Readable),
                                      world.from, world.to, world.privacy)

\* An unreadable Pi session file: Peek and Detail returned, Transcript raised.
C8_Witness ==
    /\ world.tier = "pass" /\ world.provider = "pi" /\ Unreadable(world.file)
    /\ peekRes.st = "ok" /\ detailRes.st = "ok" /\ gen.state = "raised"

\* The project that owns a session file, as the file itself records it: the
\* cwd of the Codex session_meta header, the cwd of the Pi session line.
FirstCwd(lines) ==
    LET at == {k \in 1..Len(lines) : lines[k].json = "obj" /\ lines[k].cwd # ""}
    IN  IF at = {} THEN "" ELSE lines[CHOOSE k \in at : \A j \in at : k <= j].cwd

OwningProject(w) == IF w.file.fstate = "ok" THEN FirstCwd(w.file.lines) ELSE ""

\* C9: no operation returns data of a session whose owning project matches
\* an excluded pattern: List does not list it, Detail returns no data of it
\* and Transcript yields no entry of it.
C9_ExcludedDropped ==
    /\ world.tier = "index" =>
          \A s \in Listed : ~isProjectExcluded(s.project, world.privacy)
    /\ world.tier = "pass" /\ world.provider \in {"codex", "pi"}
       /\ isProjectExcluded(OwningProject(world), world.privacy) =>
          /\ detailRes.st = "ok" => detailRes = DetailDefault
          /\ gen.out = <<>>

InRange(day) == world.from <= day /\ day <= world.to

\* The index entries of a session that List keeps, in index order
KeptEntries(sid) ==
    SelectSeq(world.index.lines,
              LAMBDA l : /\ l.json = "obj"
                         /\ l.sessionId = sid
                         /\ IF world.provider = "codex"
                            THEN l.valid /\ InRange((l.ts * 1000) \div DayMs)
                            ELSE l.ts # NoTs /\ InRange(l.ts \div DayMs))

EntryMs(l) == IF world.provider = "codex" THEN l.ts * 1000 ELSE l.ts

IsLocal(privacy) == ~privacy.redactPrompts /\ ~privacy.patterns

\* C10 as stated: under redactPrompts every prompt of every listed session
\* is "[redacted]", under local every prompt is the recorded text, and the
\* prompts and timestamps are as many and in the same order in both.
C10_PromptRedaction ==
    world.tier = "index" =>
        \A s \in Listed :
            /\ Len(s.prompts) = Len(s.promptTimestamps)
            /\ world.privacy.redactPrompts =>
                  \A k \in 1..Len(s.prompts) : s.prompts[k] = RedactedPlaceholder
            /\ world.provider # "pi" =>
                  LET kept == KeptEntries(s.sessionId)
                  IN  /\ s.promptTimestamps = [k \in 1..Len(kept) |-> EntryMs(kept[k])]
                      /\ IsLocal(world.privacy) =>
                            s.prompts = [k \in 1..Len(kept) |-> kept[k].text]

PiFilesOf(sid) ==
    {world.piFiles[j] : j \in {j \in 1..Len(world.piFiles) :
                                  world.piFiles[j].sessionId = sid}}

UserTextLines(f) ==
    {k \in 1..Len(f.lines) : f.lines[k].role = "user" /\ Len(f.lines[k].content) > 0}

\* The user prompts recorded in the Pi files of a session id
PiUserTexts(sid) ==
    UNION {{Text(f.lines[k].content[1].len, f.lines[k].content[1].sens) :
                k \in UserTextLines(f)} : f \in PiFilesOf(sid)}

\* C10, amended: a prompt taken from a recorded text is "[redacted]" under
\* redactPrompts and the recorded text under local, and the listed prompts
\* and timestamps are those of the kept index entries in index order under
\* every profile; a Pi session has one prompt, and when its file records no
\* user prompt that prompt is "(no prompt)" under every profile.
C10_RecordedPromptRedaction ==
    world.tier = "index" =>
        \A s \in Listed :
            /\ Len(s.prompts) = Len(s.promptTimestamps)
            /\ world.provider # "pi" =>
                  LET kept == KeptEntries(s.sessionId)
                  IN  /\ s.promptTimestamps = [k \in 1..Len(kept) |-> EntryMs(kept[k])]
                      /\ world.privacy.redactPrompts =>
                            s.prompts = [k \in 1..Len(kept) |-> RedactedPlaceholder]
                      /\ IsLocal(world.privacy) =>
                            s.prompts = [k \in 1..Len(kept) |-> kept[k].text]
            /\ world.provider = "pi" =>
                  /\ Len(s.prompts) = 1
                  /\ \/ /\ s.prompts[1] = NoPromptPlaceholder
                        /\ \E f \in PiFilesOf(s.sessionId) : UserTextLines(f) = {}
                     \/ /\ world.privacy.redactPrompts
                        /\ s.prompts[1] = RedactedPlaceholder
                        /\ PiUserTexts(s.sessionId) # {}
                     \/ /\ IsLocal(world.privacy)
                        /\ s.prompts[1] \in PiUserTexts(s.sessionId)

\* Under redactPrompts a session is listed with two prompts, one of them
\* recorded with a sensitive text, both shown as the placeholder.
C10_Witness ==
    /\ world.tier = "index" /\ world.privacy.redactPrompts
    /\ \E s \in Listed :
        /\ Len(s.prompts) = 2
        /\ \E k \in 1..2 : KeptEntries(s.sessionId)[k].text.sens
        /\ s.prompts = <<RedactedPlaceholder, RedactedPlaceholder>>


-----------------------------------------------------------------------------
(* Claims about the transcript stream and the aggregations *)

\* The yields of a whole file, line by line: for each entry the line that
\* produced it; raised when a line ends the stream with an exception.
TranscriptYields(fmt, lines, privacy) ==
    LET r[k \in 0..Len(lines)] ==
            IF k = 0 THEN [cur |-> "", raised |-> FALSE, ys |-> <<>>]
            ELSE LET prev == r[k-1]
                     s == StreamLine(fmt, lines[k], prev.cur, privacy)
                 IN  IF prev.raised THEN prev
                     ELSE IF s.act = "raise" THEN [prev EXCEPT !.raised = TRUE]
                     ELSE IF s.act = "yield"
                     THEN [cur |-> s.cur, raised |-> FALSE,
                           ys |-> Append(prev.ys, [line |-> k, e |-> s.e])]
                     ELSE [prev EXCEPT !.cur = s.cur]
    IN  r[Len(lines)]

StreamedFile ==
    world.tier = "pass" /\ world.file.find = "path" /\ world.file.fstate = "ok"

C11_StreamState ==
    StreamedFile /\ gen.state # "idle" =>
        LET lines == world.file.lines
            y == TranscriptYields(canonicalProvider(world.provider), lines, world.privacy)
            n == Len(gen.out)
        IN  /\ n <= Len(y.ys) /\ n <= Len(lines) /\ gen.pos <= Len(lines)
            /\ \A k \in 1..n : gen.out[k] = y.ys[k].e
            /\ \A k \in 1..n, j \in 1..n : k < j => y.ys[k].line < y.ys[j].line
            /\ gen.state = "open" => n >= 1 /\ gen.pos = y.ys[n].line
            /\ gen.state = "done" => n = Len(y.ys) /\ ~y.raised
            /\ gen.state = "raised" => n = Len(y.ys) /\ y.raised
            /\ world.provider = "claude" =>
                  \A k \in 1..n :
                      LET f == filterTranscriptEntry(lines[y.ys[k].line], world.privacy)
                      IN  ~f.drop /\ gen.out[k] = f.e

C11_StreamStep ==
    StreamedFile /\ gen' # gen =>
        /\ gen.state \in {"idle", "open"}
        /\ gen'.pos > gen.pos \/ gen'.state \in {"done", "raised"}
        /\ gen'.state = "open" => gen'.out = Append(gen.out, gen'.out[Len(gen'.out)])
        /\ gen'.state # "open" => gen'.out = gen.out

\* C11: the transcript stream yields the entries in the order of their lines
\* in the file, each the non-null result of filterTranscriptEntry; every
\* next() consumes at least one more line or ends the stream, so the sequence
\* is finite; and while the consumer holds the N-th entry no line after the
\* one that produced it has been decoded or filtered.
C11_LazyFilteredStream == []C11_StreamState /\ [][C11_StreamStep]_vars

\* The consumer stopped after one entry of a Claude file: the first line was
\* dropped by the filter, the second produced the entry, the third is a
\* message that has not been decoded.
C11_Witness ==
    /\ StreamedFile /\ world.provider = "claude"
    /\ gen.state = "open" /\ Len(gen.out) = 1 /\ gen.pos = 2
    /\ Len(world.file.lines) = 3
    /\ filterTranscriptEntry(world.file.lines[1], world.privacy).drop
    /\ world.file.lines[3].hasMsg

DayBuilt == aggWorld.kind = "day" /\ daily.st = "ok"

SumPrompts(sessions) ==
    LET r[k \in 0..Len(sessions)] ==
            IF k = 0 THEN 0 ELSE r[k-1] + Len(sessions[k].prompts)
    IN  r[Len(sessions)]

\* C12: in a daily summary every session of the day is in exactly one of
\* sessions (detailed) and shortSessions; it is detailed exactly when it has
\* at least 3 prompts; both lists keep the order of the day's list;
\* totalSessions is the sum of the two lengths and totalPrompts the sum of
\* the prompts of both lists.
C12_DailyPartition ==
    DayBuilt =>
        LET all == aggWorld.day.sessions
            det == [k \in 1..Len(daily.sessions) |-> daily.sessions[k].session]
            sh == daily.shortSessions
        IN  /\ \A k \in 1..Len(all) :
                  Cardinality({j \in 1..Len(det) : det[j] = all[k]})
                    + Cardinality({j \in 1..Len(sh) : sh[j] = all[k]}) = 1
            /\ det = SelectSeq(all, LAMBDA s : Len(s.prompts) >= 3)
            /\ sh = SelectSeq(all, LAMBDA s : Len(s.prompts) < 3)
            /\ daily.totalSessions = Len(det) + Len(sh)
            /\ daily.totalPrompts = SumPrompts(det) + SumPrompts(sh)

\* A day with a 2-prompt session between a 3-prompt and a 4-prompt session.
C12_Witness ==
    /\ DayBuilt
    /\ Len(aggWorld.day.sessions) = 3
    /\ Len(aggWorld.day.sessions[1].prompts) = 3
    /\ Len(aggWorld.day.sessions[2].prompts) = 2
    /\ Len(aggWorld.day.sessions[3].prompts) = 4
    /\ Len(daily.sessions) = 2 /\ Len(daily.shortSessions) = 1

RangeDays ==
    IF aggWorld.from > aggWorld.to THEN <<>>
    ELSE [k \in 1..(aggWorld.to - aggWorld.from + 1) |-> aggWorld.from + k - 1]

ActiveDay(d) ==
    \/ Len(aggWorld.calendar[d].sessions) > 0
    \/ aggWorld.calendar[d].tasks > 0
    \/ aggWorld.calendar[d].plans > 0

\* C13: buildDailyRange(from, to) builds a summary for every date d with
\* from <= d <= to exactly once and in ascending order (the dates built so
\* far are always a prefix of from..to, so the loop ends), and returns
\* exactly the summaries of the days with a session, a task or a plan; none
\* when from > to.
C13_RangeDays ==
    aggWorld.kind = "range" =>
        /\ Len(rangeRun.built) <= Len(RangeDays)
        /\ rangeRun.built = SubSeq(RangeDays, 1, Len(rangeRun.built))
        /\ rangeRun.state = "done" =>
              /\ rangeRun.built = RangeDays
              /\ [k \in 1..Len(rangeRun.out) |-> rangeRun.out[k].date]
                    = SelectSeq(RangeDays, ActiveDay)

HoursDone == aggWorld.kind = "hours" /\ hours.st = "ok"

\* The timestamps of a session list, as a set and counted with repetitions:
\* the prompt timestamps of a session, or for a session without any the
\* positive ends of its time range.
StampSet(sessions) ==
    UNION { IF Len(sessions[k].promptTimestamps) > 0
            THEN {sessions[k].promptTimestamps[i] : i \in 1..Len(sessions[k].promptTimestamps)}
            ELSE {t \in {sessions[k].timeRange.start, sessions[k].timeRange.end} : t > 0}
            : k \in 1..Len(sessions) }

StampCount(sessions) ==
    LET n(s) == IF Len(s.promptTimestamps) > 0 THEN Len(s.promptTimestamps)
                ELSE (IF s.timeRange.start > 0 THEN 1 ELSE 0)
                     + (IF s.timeRange.end > 0 THEN 1 ELSE 0)
        r[k \in 0..Len(sessions)] == IF k = 0 THEN 0 ELSE r[k-1] + n(sessions[k])
    IN  r[Len(sessions)]

MinOf(a, b) == IF a <= b THEN a ELSE b
MaxIn(V) == CHOOSE x \in V : \A y \in V : y <= x
MinIn(V) == CHOOSE x \in V : \A y \in V : x <= y

\* The sum over the consecutive instants of a timeline of the gap between
\* them, each gap counted as at most cap (equal instants are 0 apart).
RECURSIVE CappedGaps(_, _)
CappedGaps(V, cap) ==
    IF Cardinality(V) <= 1 THEN 0
    ELSE LET last == MaxIn(V)
             rest == V \ {last}
         IN  CappedGaps(rest, cap) + MinOf(last - MaxIn(rest), cap)

\* C14: with two or more timestamps in total, estimateHours is the sum over
\* the consecutive pairs of the sorted merged timestamps of all sessions of
\* min(gap, 15 minutes); one session with two prompts d apart gives
\* min(d, 15 min): 5 minutes apart 5/60 h, 40 minutes apart 15/60 h.
C14_GapCappedSum ==
    HoursDone /\ StampCount(aggWorld.sessions) >= 2 =>
        /\ hours.ms = CappedGaps(StampSet(aggWorld.sessions), 15 * 60000)
        /\ Len(aggWorld.sessions) = 1 /\ Len(aggWorld.sessions[1].promptTimestamps) = 2 =>
              LET t == aggWorld.sessions[1].promptTimestamps
                  d == IF t[1] <= t[2] THEN t[2] - t[1] ELSE t[1] - t[2]
              IN  /\ hours.ms = MinOf(d, 15 * 60000)
                  /\ d = 5 * 60000 => hours.ms * 60 = 5 * 3600000
                  /\ d = 40 * 60000 => hours.ms * 60 = 15 * 3600000

\* One session with prompts 40 minutes apart and one with prompts inside
\* that range 20 minutes apart: 10 + 15 + 10 minutes.
C14_Witness ==
    /\ HoursDone
    /\ Len(aggWorld.sessions) = 2
    /\ aggWorld.sessions[1].promptTimestamps = <<DayMs + 40 * 60000, DayMs>>
    /\ aggWorld.sessions[2].promptTimestamps = <<DayMs + 10 * 60000, DayMs + 30 * 60000>>
    /\ hours.ms = 35 * 60000

Span(s) == s.timeRange.end - s.timeRange.start

Within(a, b) == b.timeRange.start <= a.timeRange.start /\ a.timeRange.end <= b.timeRange.end

\* Two sessions with a real time range, one range inside the other
FullOverlap ==
    /\ HoursDone
    /\ Len(aggWorld.sessions) = 2
    /\ aggWorld.sessions[1].timeRange.start > 0
    /\ aggWorld.sessions[2].timeRange.start > 0
    /\ \/ Within(aggWorld.sessions[1], aggWorld.sessions[2])
       \/ Within(aggWorld.sessions[2], aggWorld.sessions[1])

UnionMs ==
    MaxIn({aggWorld.sessions[1].timeRange.end, aggWorld.sessions[2].timeRange.end})
      - MinIn({aggWorld.sessions[1].timeRange.start, aggWorld.sessions[2].timeRange.start})

\* C15 as stated: for two sessions whose ranges fully overlap estimateHours
\* is the duration of the union of the two ranges, and that is strictly
\* less than the sum of the two spans.
C15_OverlapUnion ==
    FullOverlap =>
        /\ hours.ms = UnionMs
        /\ hours.ms < Span(aggWorld.sessions[1]) + Span(aggWorld.sessions[2])

\* No two consecutive instants of the merged timeline are more than 15
\* minutes apart.
NoLongGap(V) ==
    \A a \in V, b \in V :
        a < b /\ (\A c \in V : ~(a < c /\ c < b)) => b - a <= 15 * 60000

\* C15, amended: for two sessions whose ranges fully overlap estimateHours
\* is at most the duration of the union of the two ranges and equals it
\* exactly when no gap of the merged timeline exceeds 15 minutes; it is at
\* most the sum of the two spans, and strictly less when both spans are
\* positive.
C15_OverlapCapped ==
    FullOverlap =>
        /\ hours.ms <= UnionMs
        /\ hours.ms = UnionMs <=> NoLongGap(StampSet(aggWorld.sessions))
        /\ hours.ms <= Span(aggWorld.sessions[1]) + Span(aggWorld.sessions[2])
        /\ Span(aggWorld.sessions[1]) > 0 /\ Span(aggWorld.sessions[2]) > 0 =>
              hours.ms < Span(aggWorld.sessions[1]) + Span(aggWorld.sessions[2])

\* Prompts at 0 and 5 minutes in one session, at 2 and 4 minutes in the
\* other: 5 minutes, the union, not 5 + 2.
C15_Witness ==
    /\ FullOverlap
    /\ aggWorld.sessions[1].promptTimestamps = <<DayMs, DayMs + 5 * 60000>>
    /\ aggWorld.sessions[2].promptTimestamps = <<DayMs + 2 * 60000, DayMs + 4 * 60000>>
    /\ hours.ms = 5 * 60000

\* C16: estimateHours is 0 for an empty list and whenever the sessions
\* contribute no timestamp, and 5 minutes (5/60 h) whenever they contribute
\* exactly one; a session without prompt timestamps contributes the start
\* and the end of its time range, each only if it is greater than 0.
C16_SpecialCases ==
    HoursDone =>
        /\ Len(aggWorld.sessions) = 0 => hours.ms = 0
        /\ StampCount(aggWorld.sessions) = 0 => hours.ms = 0
        /\ StampCount(aggWorld.sessions) = 1 => hours.ms * 60 = 5 * 3600000
        /\ StampCount(aggWorld.sessions) >= 2 =>
              hours.ms = CappedGaps(StampSet(aggWorld.sessions), GapCapMs)
        /\ \A k \in 1..Len(aggWorld.sessions) :
              LET s == aggWorld.sessions[k]
              IN  Len(s.promptTimestamps) = 0 =>
                     Contributed(s) = (IF s.timeRange.start > 0 THEN <<s.timeRange.start>> ELSE <<>>)
                                      \o (IF s.timeRange.end > 0 THEN <<s.timeRange.end>> ELSE <<>>)

\* A session without prompts whose range starts at 0 and a session with
\* neither prompts nor range: one timestamp in total, 5 minutes.
C16_Witness ==
    /\ HoursDone
    /\ Len(aggWorld.sessions) = 2
    /\ \A k \in 1..2 : Len(aggWorld.sessions[k].promptTimestamps) = 0
    /\ aggWorld.sessions[1].timeRange = [start |-> 0, end |-> DayMs + 10 * 60000]
    /\ aggWorld.sessions[2].timeRange = [start |-> 0, end |-> 0]
    /\ hours.ms = SingleStampMs

-----------------------------------------------------------------------------
(* Claims about the contents of a session detail *)

DetailReturned == DetailDone /\ detailRes.st = "ok" /\ world.file.fstate = "ok"

\* Does the line carry an assistant response (tool calls, text) that Detail
\* of the provider looks at?
AssistantEvent(provider, l, privacy) ==
    /\ l.json = "obj"
    /\ CASE provider = "codex" ->
              l.type = "response_item" /\ l.ptype \in {"function_call", "message"}
              /\ (l.ptype = "message" => l.role = "assistant")
         [] provider = "pi" -> l.type = "message" /\ l.hasMsg /\ l.role = "assistant"
         [] OTHER -> l.hasMsg /\ l.role = "assistant"
                     /\ ~filterTranscriptEntry(l, privacy).drop

\* The tool invocations of a file in file order, each as the summary Detail
\* makes of it.
InvocationsOf(provider, lines, privacy) ==
    LET Target(b) == CASE provider = "codex" -> extractCodexToolTarget(b)
                       [] provider = "pi" -> extractPiToolTarget(b)
                       [] OTHER -> extractToolTarget(b)
        Calls(l) == LET bs == SelectSeq(l.content, LAMBDA b : b.bt = "tool" /\ b.name # "")
                    IN  [k \in 1..Len(bs) |->
                            ToolCallSummary(bs[k].name,
                                            toolDisplayName(bs[k].name, bs[k].key, bs[k].arg),
                                            Target(bs[k]))]
        r[k \in 0..Len(lines)] ==
            IF k = 0 THEN <<>>
            ELSE IF AssistantEvent(provider, lines[k], privacy)
                    /\ (provider = "codex" => lines[k].ptype = "function_call")
            THEN r[k-1] \o Calls(lines[k])
            ELSE r[k-1]
    IN  r[Len(lines)]

\* C17: after a Detail parse of any session file the display names of
\* toolCalls are pairwise distinct, there is exactly one entry for every
\* display name that occurs in the file, and the entry holds the name,
\* category and target of the last invocation with that display name.
C17_ToolCallsDeduplicated ==
    DetailReturned =>
        LET invs == InvocationsOf(world.provider, world.file.lines, world.privacy)
            tcs == detailRes.toolCalls
        IN  /\ \A j \in 1..Len(tcs), k \in 1..Len(tcs) :
                  tcs[j].displayName = tcs[k].displayName => j = k
            /\ {tcs[k].displayName : k \in 1..Len(tcs)}
                  = {invs[k].displayName : k \in 1..Len(invs)}
            /\ \A j \in 1..Len(tcs) :
                  \E k \in 1..Len(invs) :
                      /\ invs[k] = tcs[j]
                      /\ \A i \in (k + 1)..Len(invs) :
                            invs[i].displayName # tcs[j].displayName

\* The summaries a file should give when a response is kept from min
\* characters on: for each assistant response in file order whose extracted
\* text has at least min characters, the length of its first
\* SummaryMaxChars characters and whether "..." follows; the first
\* SummaryLimit of them.
SummariesFrom(provider, lines, privacy, min) ==
    LET r[k \in 0..Len(lines)] ==
            IF k = 0 THEN <<>>
            ELSE LET l == lines[k]
                     n == extractText(l.content).len
                 IN  IF AssistantEvent(provider, l, privacy)
                        /\ (provider = "codex" => l.ptype = "message")
                        /\ n >= min
                     THEN Append(r[k-1], [len |-> MinOf(n, 200), ellipsis |-> n > 200])
                     ELSE r[k-1]
    IN  Take(r[Len(lines)], 10)

RecordedSummaries ==
    [k \in 1..Len(detailRes.summaries) |->
        [len |-> detailRes.summaries[k].len, ellipsis |-> detailRes.summaries[k].ellipsis]]

\* C18: Detail records a summary for an assistant response exactly when its
\* extracted text has at least 20 characters; the summaries kept are those of
\* the first 10 such responses in file order, each the first 200 characters
\* of the text, followed by "..." exactly when the text is longer than 200.
C18_SummarySelection ==
    DetailReturned =>
        RecordedSummaries
          = SummariesFrom(world.provider, world.file.lines, world.privacy, 20)

\* Claims about the token counters and the message count

NonNegative(tok) == tok.i >= 0 /\ tok.o >= 0 /\ tok.cc >= 0 /\ tok.cr >= 0

NotBelow(a, b) == a.i <= b.i /\ a.o <= b.o /\ a.cc <= b.cc /\ a.cr <= b.cr

\* The file cut after its first k lines: the counters of a pass over it are
\* the counters the pass over the whole file holds after line k.
FirstLines(k) == [world.file EXCEPT !.lines = SubSeq(@, 1, k)]

PeekAfter(k) ==
    IF world.provider = "pi"
    THEN PeekPiSession(world.file.find, world.file.fstate, FirstLines(k).lines)
    ELSE peekSession(world.provider, FirstLines(k))

DetailAfter(k) == parseSessionDetail(world.provider, FirstLines(k), world.privacy)

\* C19: in a Peek or Detail pass over any file contents each of the four
\* token counters starts at 0, never decreases from one line to the next,
\* and is not negative in the returned SessionMeta or SessionDetail.
C19_TokenCounters ==
    /\ PeekDone /\ peekRes.st = "ok" =>
        /\ PeekAfter(0).tok = ZeroTokens
        /\ \A k \in 1..Len(world.file.lines) :
                NotBelow(PeekAfter(k - 1).tok, PeekAfter(k).tok)
        /\ NonNegative(peekRes.tok)
    /\ DetailDone /\ detailRes.st = "ok" =>
        /\ DetailAfter(0).tok = ZeroTokens
        /\ \A k \in 1..Len(world.file.lines) :
                NotBelow(DetailAfter(k - 1).tok, DetailAfter(k).tok)
        /\ NonNegative(detailRes.tok)

\* The user and assistant turns of a session file: the lines that hold a
\* message of role user or assistant, in the provider's message shape.
Turns(provider, lines) ==
    Cardinality({k \in 1..Len(lines) :
        /\ lines[k].json = "obj"
        /\ lines[k].role \in {"user", "assistant"}
        /\ IF provider = "codex"
           THEN lines[k].type = "response_item" /\ lines[k].ptype = "message"
           ELSE IF provider = "pi"
           THEN lines[k].type = "message" /\ lines[k].hasMsg
           ELSE lines[k].hasMsg})

BothReturned ==
    /\ PeekDone /\ DetailDone
    /\ peekRes.st = "ok" /\ detailRes.st = "ok"
    /\ world.file.fstate = "ok"

\* C20: messageCount is the number of user and assistant turns of the
\* session, and for each provider the messageCount, model and gitBranch of
\* Detail on a session file equal those of Peek on the same file.
C20_DetailExtendsPeek ==
    BothReturned =>
        /\ detailRes.messageCount = Turns(world.provider, world.file.lines)
        /\ detailRes.messageCount = peekRes.messageCount
        /\ detailRes.model = peekRes.model
        /\ detailRes.gitBranch = peekRes.gitBranch

-----------------------------------------------------------------------------
(* Claims about the Pi transcript, the session list and its metadata *)

\* The model_change events of a Pi file before line k.
ModelChangesBefore(lines, k) ==
    {j \in 1..(k - 1) : lines[j].json = "obj" /\ lines[j].type = "model_change"
                        /\ lines[j].model # ""}

\* The model an assistant message at line k should carry: that of the last
\* model_change before it, its own model field when there is none.
ModelInForce(lines, k) ==
    IF ModelChangesBefore(lines, k) = {} THEN lines[k].model
    ELSE lines[MaxIn(ModelChangesBefore(lines, k))].model

\* C21: in the Pi transcript every assistant entry carries the model of the
\* most recent model_change event before it in the file, a later
\* model_change replacing an earlier one for all messages that follow, and
\* an assistant message with no model_change before it carries its own model
\* field.
C21_PiModelInForce ==
    StreamedFile /\ world.provider = "pi" /\ gen.state # "idle" =>
        LET lines == world.file.lines
            y == TranscriptYields("pi", lines, world.privacy)
        IN  \A k \in 1..Len(gen.out) :
                gen.out[k].role = "assistant" =>
                    /\ lines[y.ys[k].line].role = "assistant"
                    /\ gen.out[k].model = ModelInForce(lines, y.ys[k].line)

\* A stream that gave three assistant entries: the first before any
\* model_change, with its own model; then, each after a model_change, one
\* with the first model and one with the model that replaced it.
C21_Witness ==
    /\ StreamedFile /\ world.provider = "pi" /\ gen.state = "done"
    /\ \E a, b, c \in 1..Len(gen.out) :
        /\ a < b /\ b < c
        /\ gen.out[a].role = "assistant" /\ gen.out[a].model = "m2"
        /\ gen.out[b].role = "assistant" /\ gen.out[b].model = "m1"
        /\ gen.out[c].role = "assistant" /\ gen.out[c].model = "m3"

ListDone == world.tier = "index" /\ listRes.st = "ok"

\* The timestamps of a sequence of index entries, in milliseconds
StampsOfEntries(entries) == [k \in 1..Len(entries) |-> EntryMs(entries[k])]

\* C22: List returns at most one SessionInfo for a session id; a SessionInfo
\* built from the index holds exactly the index entries of its id whose
\* local date lies in [from, to], in index order; and the list is in
\* ascending order of timeRange.start.
C22_ListGrouped ==
    ListDone =>
        LET out == listRes.sessions
        IN  /\ \A j, k \in 1..Len(out) :
                  out[j].sessionId = out[k].sessionId => j = k
            /\ world.provider \in {"claude", "codex"} =>
                  \A k \in 1..Len(out) :
                      /\ out[k].promptTimestamps
                           = StampsOfEntries(KeptEntries(out[k].sessionId))
                      /\ Len(out[k].prompts) = Len(KeptEntries(out[k].sessionId))
            /\ \A j, k \in 1..Len(out) :
                  j < k => out[j].timeRange.start <= out[k].timeRange.start

\* The meta of a listed session taken alone: what Peek gives on the file
\* of that session, whatever the other peeks did.
PeekAlone(s) == peekSession(world.provider, world.rollouts[s.sessionId])

-----------------------------------------------------------------------------
(* Claims about failed scans and the Codex header cache *)

Rejected(b) == b \in DOMAIN builds /\ builds[b].state = "rejected"

\* The rejected promise is the cache entry of its directory and the only
\* scan ever started for it.
C24_RejectedState ==
    \A b \in DOMAIN builds :
        Rejected(b) => /\ rolloutIndexCache[builds[b].dir] = b
                       /\ BuildsOf(builds[b].dir) = {b}

\* Once rejected: the promise stays rejected, a call for the directory gets
\* that promise and starts no scan, and whoever awaits it gets the error.
C24_RejectedStep ==
    \A b \in DOMAIN builds :
        Rejected(b) =>
            /\ builds'[b] = builds[b]
            /\ rolloutIndexCache'[builds[b].dir] = b
            /\ \A p \in Callers :
                /\ (pc[p] = "idle" /\ pc'[p] = "awaitIndex"
                    /\ arg'[p].dir = builds[b].dir) =>
                        ref'[p] = b /\ builds' = builds
                /\ (pc[p] = "awaitIndex" /\ ref[p] = b /\ pc'[p] # pc[p]) =>
                        pc'[p] = "idle" /\ ret'[p].kind = "error"

\* C24: a failed index build is memoized: when the scan of a directory
\* rejects, the rejected promise stays in the cache, every later
\* findRolloutFile / findPiSessionFile call for that directory fails with
\* its error, and no new scan is started: no retry, the entry is never
\* replaced.
C24_FailureMemoized == []C24_RejectedState /\ [][C24_RejectedStep]_vars

\* A caller that got the error called again for the same directory and is
\* handed the same rejected promise, the only scan ever started.
C24_Witness ==
    \E p \in Callers :
        /\ ret[p].kind = "error"
        /\ pc[p] = "awaitIndex"
        /\ Rejected(ref[p])
        /\ Len(builds) = 1

\* The header cache never starts a second read of a key, and what a caller
\* received is what the cache holds for its key.
C25_HeaderState ==
    /\ \A s \in ListIds : headerCache[s].reads <= 1
    /\ \A p \in Callers :
          headerCall[p].st = "ok" =>
              /\ headerCache[headerCall[p].id].state = "settled"
              /\ headerCall[p].header = headerCache[headerCall[p].id].header
              /\ headerCall[p].header.cwd = "" =>
                    headerCall[p].project = UnknownProject(headerCall[p].id)

\* A settled entry never changes, whatever happens to the file, and a
\* pending one is never dropped.
C25_HeaderStep ==
    \A s \in ListIds :
        /\ headerCache[s].state = "settled" => headerCache'[s] = headerCache[s]
        /\ headerCache[s].state = "pending" => headerCache'[s].state # "none"
        /\ headerCache'[s].reads >= headerCache[s].reads

\* C25: the Codex header is computed once per (sessionsDir, sessionId):
\* concurrent and later readCodexSessionHeader calls of a key share one
\* read and all receive its result, the empty header of a rollout file that
\* did not exist at the first call included; a rollout file created later
\* is never reflected, and List goes on reporting the project as
\* "(unknown)/<sessionId>".
C25_HeaderComputedOnce == []C25_HeaderState /\ [][C25_HeaderStep]_vars

\* Both callers asked for the same session; the read settled before the
\* rollout file was written, and a call that returned with the readable
\* file on disk still got the empty header and the unknown project.
C25_Witness ==
    \E s \in ListIds :
        /\ headerDisk[s].fstate = "ok" /\ headerDisk[s].lines[1].cwd = "/p1"
        /\ headerCache[s].header = NoHeader
        /\ \A p \in Callers : headerCall[p].st = "ok" /\ headerCall[p].id = s
        /\ \E p \in Callers :
              headerCall[p].onDisk /\ headerCall[p].project = UnknownProject(s)

-----------------------------------------------------------------------------
(* Claims about the estimate as a function of the session list *)

\* C26: estimateHours is monotone in the session list: for session lists S
\* and T, estimateHours(S ++ T) >= estimateHours(S); adding sessions or
\* timestamps never lowers the estimate.
C26_Monotone ==
    HoursDone =>
        \A k \in 0..Len(aggWorld.sessions) :
            estimateHours(SubSeq(aggWorld.sessions, 1, k)) <= hours.ms

\* C26 without the single-timestamp case: estimateHours(S ++ T) is at least
\* estimateHours(S) whenever S holds no timestamp or two or more; a list S
\* with exactly one timestamp is estimated at the fixed 5 minutes, whatever
\* S ++ T gives.
C26_MonotoneFromTwo ==
    HoursDone =>
        \A k \in 0..Len(aggWorld.sessions) :
            LET S == SubSeq(aggWorld.sessions, 1, k)
            IN  IF StampCount(S) = 1 THEN estimateHours(S) = SingleStampMs
                ELSE estimateHours(S) <= hours.ms

\* Two sessions of two prompts each, the second adding time to the estimate
\* of the first.
C26_Witness ==
    /\ HoursDone /\ Len(aggWorld.sessions) = 2
    /\ StampCount(SubSeq(aggWorld.sessions, 1, 1)) = 2
    /\ StampCount(aggWorld.sessions) = 4
    /\ 0 < estimateHours(SubSeq(aggWorld.sessions, 1, 1))
    /\ estimateHours(SubSeq(aggWorld.sessions, 1, 1)) < hours.ms

\* The rearrangements of a sequence
Rearranged(s) ==
    { [i \in 1..Len(s) |-> s[f[i]]] :
        f \in {g \in [1..Len(s) -> 1..Len(s)] :
                  \A i, j \in 1..Len(s) : g[i] = g[j] => i = j} }

\* C27: with two or more timestamps in total the estimate, in milliseconds,
\* is at least 0, at most the largest timestamp minus the smallest and at
\* most (n - 1) times 15 minutes; it is the same for every order of the
\* sessions and every order of the timestamps inside a session; and the
\* call leaves the promptTimestamps array of every session as it was.
C27_BoundedOrderFree ==
    HoursDone =>
        LET given == hours.passed
            n == StampCount(given)
        IN  /\ n >= 2 =>
                  /\ hours.ms >= 0
                  /\ hours.ms <= MaxIn(StampSet(given)) - MinIn(StampSet(given))
                  /\ hours.ms <= (n - 1) * 15 * 60000
            /\ \A r \in Rearranged(given) : estimateHours(r) = hours.ms
            /\ \A k \in 1..Len(given) :
                  \A ts \in Rearranged(given[k].promptTimestamps) :
                      estimateHours([given EXCEPT ![k].promptTimestamps = ts]) = hours.ms
            /\ Len(aggWorld.sessions) = Len(given)
            /\ \A k \in 1..Len(given) :
                  aggWorld.sessions[k].promptTimestamps = given[k].promptTimestamps

\* Three different sessions, one of them with its prompts out of time
\* order and a gap above the cap: the estimate is below both bounds.
C27_Witness ==
    /\ HoursDone /\ Len(hours.passed) = 3
    /\ hours.passed[1] # hours.passed[2] /\ hours.passed[2] # hours.passed[3]
    /\ \E k \in 1..3 :
          /\ Len(hours.passed[k].promptTimestamps) = 2
          /\ hours.passed[k].promptTimestamps[1] > hours.passed[k].promptTimestamps[2]
    /\ aggWorld.sessions = hours.passed
    /\ 0 < hours.ms
    /\ hours.ms < MaxIn(StampSet(hours.passed)) - MinIn(StampSet(hours.passed))
    /\ hours.ms < (StampCount(hours.passed) - 1) * 15 * 60000

-----------------------------------------------------------------------------
(* Claims about the Pi session list and the commit hook *)

\* The number of user messages among the lines of a Pi file
UserLines(f) ==
    Cardinality({k \in 1..Len(f.lines) :
                    f.lines[k].type = "message" /\ f.lines[k].role = "user"})

\* The daily split of what List returned, each session with a session file
\* that cannot be read.
SplitOfList ==
    parseSessions(world.provider, listRes.sessions,
                  [k \in 1..Len(listRes.sessions) |-> NoFile], world.privacy)

\* C28: for Pi every SessionInfo of the directory-scan List has exactly one
\* prompt and one timestamp, with timeRange.start = timeRange.end, however
\* many user messages its file holds; so parseSessions puts no Pi session
\* in the detailed list.
C28_PiSinglePrompt ==
    (ListDone /\ world.provider = "pi") =>
        /\ \A k \in 1..Len(listRes.sessions) :
              LET s == listRes.sessions[k]
              IN  /\ Len(s.prompts) = 1
                  /\ Len(s.promptTimestamps) = 1
                  /\ s.timeRange.start = s.promptTimestamps[1]
                  /\ s.timeRange.start = s.timeRange.end
        /\ SplitOfList.st = "ok"
        /\ SplitOfList.detailed = <<>>
        /\ SplitOfList.short = listRes.sessions

\* A listed Pi file with two user messages, the first of them the prompt.
C28_Witness ==
    /\ ListDone /\ world.provider = "pi"
    /\ \E j \in 1..Len(world.piFiles), k \in 1..Len(listRes.sessions) :
          /\ UserLines(world.piFiles[j]) >= 2
          /\ world.piFiles[j].sessionId = listRes.sessions[k].sessionId
          /\ listRes.sessions[k].timeRange.start = 2 * DayMs + 1000
          /\ listRes.sessions[k].prompts = <<Text(4, FALSE)>>
    /\ SplitOfList.short = listRes.sessions

\* Only install has been run, at least once
OnlyInstalls == hookOps # <<>> /\ \A k \in 1..Len(hookOps) : hookOps[k] = "install"

\* A line that is one of the two markers
MarkerLine(l) == l.body \in {MARKER_START, MARKER_END}

\* A hook file that holds no marker line: nothing of it was written by
\* install.
Foreign(h) == h.exists /\ \A k \in 1..Len(h.text) : ~MarkerLine(h.text[k])

\* The number of marker blocks in a text
Blocks(text) ==
    Cardinality({k \in 1..(Len(text) - 2) : SubSeq(text, k, k + 2) = hookBlock})

C29_BlockOnce ==
    (OnlyInstalls /\ (~hookOrig.exists \/ Foreign(hookOrig))) =>
        /\ hook.exists
        /\ Blocks(hook.text) = 1
        /\ Cardinality({k \in 1..Len(hook.text) : MarkerLine(hook.text[k])}) = 2

C29_SecondInstall ==
    (OnlyInstalls /\ (~hookOrig.exists \/ Foreign(hookOrig))
       /\ hookOps' = Append(hookOps, "install")) => hook' = hook

\* C29: install is idempotent: after any sequence of installs the hook
\* holds the marker block exactly once, and an install after the first
\* leaves the hook file as it is, whether the hook was absent or held
\* foreign content before the first install.
C29_InstallIdempotent == []C29_BlockOnce /\ [][C29_SecondInstall]_vars

\* install then uninstall, and nothing else, has been run
InstalledThenRemoved == hookOps = <<"install", "uninstall">>

\* A text without the white space at the end of each of its lines and
\* without the empty lines at its end
RightStripped(text) ==
    LET full == {k \in 1..Len(text) : text[k].body # ""}
    IN  IF full = {} THEN <<>>
        ELSE [k \in 1..(CHOOSE k \in full : \A j \in full : j <= k) |->
                [text[k] EXCEPT !.trail = 0]]

\* A text from its first to its last line that is not white space, the
\* first without the white space before it and the last without the white
\* space after it
Stripped(text) ==
    LET full == {k \in 1..Len(text) : text[k].body # ""}
        lo == CHOOSE k \in full : \A j \in full : k <= j
        hi == CHOOSE k \in full : \A j \in full : j <= k
    IN  IF full = {} THEN <<>>
        ELSE [k \in 1..(hi - lo + 1) |->
                [text[lo + k - 1] EXCEPT !.lead = IF k = 1 THEN 0 ELSE @,
                                         !.trail = IF lo + k - 1 = hi THEN 0 ELSE @]]

NoMarkerLine(text) == \A k \in 1..Len(text) : ~MarkerLine(text[k])

\* uninstall on a hook that does not hold the marker text changes nothing.
C30_UninstallAlone ==
    (hookOps' = Append(hookOps, "uninstall")
       /\ (~hook.exists \/ ~includes(hook.text))) => hook' = hook

C30_RoundTripExact ==
    InstalledThenRemoved =>
        /\ ~hookOrig.exists => ~hook.exists
        /\ Foreign(hookOrig) =>
              /\ hook.exists
              /\ RightStripped(hook.text) = RightStripped(hookOrig.text)
              /\ NoMarkerLine(hook.text)

\* C30 as stated: from no hook file, install then uninstall leaves no hook
\* file; from a hook with foreign content they leave a hook whose lines are
\* the original lines up to trailing white space, with no marker line; and
\* uninstall on a hook without the marker changes nothing.
C30_UninstallUndoes == []C30_RoundTripExact /\ [][C30_UninstallAlone]_vars

C30_RoundTripTrimmed ==
    InstalledThenRemoved =>
        /\ ~hookOrig.exists => ~hook.exists
        /\ Foreign(hookOrig) =>
              IF Stripped(hookOrig.text) \in {<<>>, <<Shebang>>}
              THEN ~hook.exists
              ELSE /\ hook.exists
                   /\ hook.text = Stripped(hookOrig.text) \o <<Blank>>
                   /\ NoMarkerLine(hook.text)

\* C30, as the code has it: from no hook file, install then uninstall
\* leaves no hook file; from a hook with foreign content they leave the
\* original text without the white space at its two ends, followed by one
\* line break and with no marker line, and no hook file at all when that
\* text is empty or is the line #!/bin/sh alone; and uninstall on a hook
\* whose text does not contain the marker-start text changes nothing.
C30_UninstallUndoesTrimmed == []C30_RoundTripTrimmed /\ [][C30_UninstallAlone]_vars

\* A foreign hook of a header and a command, indented and followed by a
\* blank, comes back without the blank after install and uninstall.
C30_Witness ==
    /\ InstalledThenRemoved
    /\ hookOrig.exists /\ hookOrig.text = <<Shebang, Ln(1, "echo hi", 1)>>
    /\ hook.exists /\ hook.text = <<Shebang, Ln(1, "echo hi", 0), Blank>>
=============================================================================
